---- MODULE Spec2Model ----
(***************************************************************************)
(* Model of the Lupito Sanity Studio content-generation plugin and its     *)
(* secrets loader.                                                         *)
(*                                                                         *)
(*  - Spec       : one instance of the useGenerateContent hook and a       *)
(*                 consumer that calls generate, also while an earlier     *)
(*                 call is suspended.                                      *)
(*  - DialogSpec : the GenerateAction with its GenerateModal: the dialog   *)
(*                 opened, submitted, dismissed and opened again, each     *)
(*                 GenerateModal with a hook instance of its own, and the  *)
(*                 success handler's document patches.                     *)
(*  - LiveSpec   : the dialog, with every awaited network call eventually  *)
(*                 answered.                                               *)
(*  - SecretSpec : lib/secrets-manager.ts getSecret with its process-wide  *)
(*                 cache and a clock.                                      *)
(*  - BatchSpec  : getSecrets, a batch of concurrent getSecret calls.       *)
(*  - ConfigSpec : lib/config.ts loadConfig with its configuration cache.   *)
(*  - SearchSpec : hooks/useUnsplashSearch.ts, overlapping searches.        *)
(*  - PureSpec   : one call of a pure function (formatSecretName,          *)
(*                 generateSlug, addImagePlaceholders, formatBlockContent, *)
(*                 parseInlineFormatting) on an input drawn from a bounded *)
(*                 set.                                                    *)
(*                                                                         *)
(* Strings that the code inspects character by character (titles, slugs)   *)
(* are sequences of one-character strings.  An optional value (null or     *)
(* undefined in the code) is a sequence of length 0 or 1.                  *)
(***************************************************************************)
EXTENDS Naturals, Sequences, FiniteSets, TLC

\* ------------------------------------------------------------------ bounds
\* Longest `languages` list a form submits.
MaxLangs == 2
\* getSecret calls that may wait for the secret store at the same time.
MaxPending == 1
\* Steps the clock takes.
MaxTicks == 2
\* Longest list of names given to getSecrets.
MaxNames == 2
\* Longest title given to generateSlug.
MaxTitleLen == 4
\* Most blocks, and largest count, given to addImagePlaceholders.
MaxBlocks == 6
MaxCount == 3
\* Lines of a markdown text and characters of a paragraph line handed to the
\* formatter.
MaxLines == 3
\* loadConfig calls in progress at the same time.
MaxLoads == 2
\* Image searches of the search hook in flight at the same time.
MaxSearches == 2
\* Calls of generate a behaviour makes.
MaxCalls == 2
MaxTextLen == 5

\* --------------------------------------------------------------- constants
\* types.ts SUPPORTED_LANGUAGES, and the formatter's fixed language list.
Langs == {"ro", "en", "pl", "hu", "cs"}
FormatterLanguages == <<"ro", "en", "pl", "hu", "cs">>

Undefined == "undefined"
Null == "null"

ValidationMessage == "Topic and at least one language are required"
TimeoutMessage == "Generation timed out. The request took too long. Try with a shorter article or simpler topic."
DefaultErrorMessage == "An error occurred during generation"
NetworkErrorMessage == "Failed to fetch"

\* ----------------------------------------------------------------- helpers
Range(s) == {s[i] : i \in 1..Len(s)}

\* Sequences over S without repetition, of length 0..n.
DistinctSeqs(S, n) ==
  UNION {{s \in [1..k -> S] : \A i, j \in 1..k : i # j => s[i] # s[j]} : k \in 0..n}

\* Array.from(new Set(xs)): first occurrences, in order.
RECURSIVE Dedup(_)
Dedup(xs) ==
  IF xs = <<>> THEN <<>>
  ELSE LET init == Dedup(SubSeq(xs, 1, Len(xs) - 1))
           last == xs[Len(xs)]
       IN IF last \in Range(init) THEN init ELSE Append(init, last)

\* lang.toUpperCase()
ToUpperCase(lang) ==
  CASE lang = "ro" -> "RO" [] lang = "en" -> "EN" [] lang = "pl" -> "PL"
    [] lang = "hu" -> "HU" [] lang = "cs" -> "CS"

\* ------------------------------------------------------------ generateSlug
\* The ASCII letters in alphabet order, a capital and its lower-case letter
\* at the same position: the letters of \w, and the letters toLowerCase maps
\* into \w.
UpperAlphabet ==
  <<"A", "B", "C", "D", "E", "F", "G", "H", "I", "J", "K", "L", "M", "N",
   "O", "P", "Q", "R", "S", "T", "U", "V", "W", "X", "Y", "Z">>
LowerAlphabet ==
  <<"a", "b", "c", "d", "e", "f", "g", "h", "i", "j", "k", "l", "m", "n",
   "o", "p", "q", "r", "s", "t", "u", "v", "w", "x", "y", "z">>
\* \w of the regular expression: [A-Za-z0-9_].
WordChars ==
  Range(UpperAlphabet) \cup Range(LowerAlphabet)
    \cup {"0", "1", "2", "3", "4", "5", "6", "7", "8", "9", "_"}
\* \s of the regular expression, which is also what trim() removes: space,
\* tab, line feed, carriage return, form feed, vertical tab (U+000B),
\* no-break space (U+00A0), U+1680 and U+FEFF.  The other Unicode spaces
\* (U+2000-U+200A, U+2028, U+2029, U+202F, U+205F, U+3000) cannot be written
\* in a module and are left out.
SpaceChars == {" ", "\t", "\n", "\r", "\f", "", " ", " ", "﻿"}
\* What '.' of a regular expression does not match: the line terminators
\* (U+2028 and U+2029 are left out as above).
LineTerminators == {"\n", "\r"}

\* .toLowerCase().replace(/[^\w\s-]/g, ''): the two links are taken together
\* because the lower-case form of many letters beyond Latin-1 cannot be
\* written in a module.  toLowerCase turns an ASCII capital into its
\* lower-case letter and maps every other character that can be written here
\* to a character outside [\w\s-] or leaves it as it is (only U+0130 and
\* U+212A, which cannot be written, become ASCII letters), so the replace
\* keeps exactly the characters of [\w\s-], the capitals in lower case.
LowerAndStrip(s) ==
  LET kept == SelectSeq(s, LAMBDA c : c \in WordChars \cup SpaceChars \cup {"-"})
  IN [i \in 1..Len(kept) |->
        IF kept[i] \in Range(UpperAlphabet)
        THEN LowerAlphabet[CHOOSE k \in 1..Len(UpperAlphabet) : UpperAlphabet[k] = kept[i]]
        ELSE kept[i]]

\* .replace(/\s+/g, '-'): every maximal run of whitespace becomes one hyphen.
RECURSIVE SpacesToHyphen(_)
SpacesToHyphen(s) ==
  IF s = <<>> THEN <<>>
  ELSE IF Head(s) \in SpaceChars
       THEN IF Len(s) > 1 /\ s[2] \in SpaceChars
            THEN SpacesToHyphen(Tail(s))
            ELSE <<"-">> \o SpacesToHyphen(Tail(s))
       ELSE <<Head(s)>> \o SpacesToHyphen(Tail(s))

\* .replace(/-+/g, '-'): every maximal run of hyphens becomes one hyphen.
RECURSIVE CollapseHyphens(_)
CollapseHyphens(s) ==
  IF s = <<>> THEN <<>>
  ELSE IF Head(s) = "-" /\ Len(s) > 1 /\ s[2] = "-"
       THEN CollapseHyphens(Tail(s))
       ELSE <<Head(s)>> \o CollapseHyphens(Tail(s))

\* .trim(): whitespace and line terminators removed at both ends.
RECURSIVE TrimLeft(_)
TrimLeft(s) ==
  IF s # <<>> /\ Head(s) \in SpaceChars THEN TrimLeft(Tail(s)) ELSE s
RECURSIVE TrimRight(_)
TrimRight(s) ==
  IF s # <<>> /\ s[Len(s)] \in SpaceChars
  THEN TrimRight(SubSeq(s, 1, Len(s) - 1)) ELSE s
Trim(s) == TrimRight(TrimLeft(s))

generateSlug(title) ==
  Trim(CollapseHyphens(SpacesToHyphen(LowerAndStrip(title))))


\* -------------------------------------------------- formatContentForSanity
StartsWith(s, p) == Len(s) >= Len(p) /\ SubSeq(s, 1, Len(p)) = p
EndsWith(s, p) == Len(s) >= Len(p) /\ SubSeq(s, Len(s) - Len(p) + 1, Len(s)) = p
\* s.slice(n)
SliceFrom(s, n) == SubSeq(s, n + 1, Len(s))
\* s.slice(n, -m)
SliceMid(s, n, m) == SubSeq(s, n + 1, Len(s) - m)

\* markdown.split('\n')
RECURSIVE SplitLines(_)
SplitLines(s) ==
  IF \A i \in 1..Len(s) : s[i] # "\n" THEN <<s>>
  ELSE LET i == CHOOSE k \in 1..Len(s) : s[k] = "\n" /\ \A j \in 1..(k - 1) : s[j] # "\n"
       IN <<SubSeq(s, 1, i - 1)>> \o SplitLines(SubSeq(s, i + 1, Len(s)))

\* !line.trim()
IsBlank(line) == \A i \in 1..Len(line) : line[i] \in SpaceChars

\* Last index of the leftmost match of /\*\*.*?\*\*|\*.*?\*/ that starts at p,
\* or 0 when none starts there.  '.' matches no line terminator.
MatchEnd(s, p) ==
  IF s[p] # "*" THEN 0
  ELSE LET dots(a, b) == \A i \in a..b : s[i] \notin LineTerminators
           boldEnds == {q \in (p + 2)..(Len(s) - 1) :
                          s[q] = "*" /\ s[q + 1] = "*" /\ dots(p + 2, q - 1)}
           emEnds == {q \in (p + 1)..Len(s) : s[q] = "*" /\ dots(p + 1, q - 1)}
           min(S) == CHOOSE q \in S : \A r \in S : q <= r
       IN IF p + 1 <= Len(s) /\ s[p + 1] = "*" /\ boldEnds # {}
          THEN min(boldEnds) + 1
          ELSE IF emEnds # {} THEN min(emEnds) ELSE 0

\* text.split(/(\*\*.*?\*\*|\*.*?\*)/g): unmatched stretches and the captured
\* matches, alternating, empty stretches included.
RECURSIVE SplitFrom(_, _, _)
SplitFrom(s, p, segStart) ==
  IF p > Len(s) THEN <<SubSeq(s, segStart, Len(s))>>
  ELSE LET e == MatchEnd(s, p)
       IN IF e = 0 THEN SplitFrom(s, p + 1, segStart)
          ELSE <<SubSeq(s, segStart, p - 1), SubSeq(s, p, e)>> \o SplitFrom(s, e + 1, e + 1)

Span(text, marks) == [type |-> "span", text |-> text, marks |-> marks]

SpanOfPart(part) ==
  IF StartsWith(part, <<"*", "*">>) /\ EndsWith(part, <<"*", "*">>)
  THEN Span(SliceMid(part, 2, 2), <<"strong">>)
  ELSE IF StartsWith(part, <<"*">>) /\ EndsWith(part, <<"*">>)
       THEN Span(SliceMid(part, 1, 1), <<"em">>)
       ELSE Span(part, <<>>)

parseInlineFormatting(text) ==
  LET parts == SelectSeq(SplitFrom(text, 1, 1), LAMBDA part : part # <<>>)
      spans == [i \in 1..Len(parts) |-> SpanOfPart(parts[i])]
  IN IF Len(spans) > 0 THEN spans ELSE <<Span(text, <<>>)>>

Block(style, children) == [type |-> "block", style |-> style, children |-> children]

BlockOfLine(line) ==
  IF StartsWith(line, <<"#", " ">>) THEN Block("h1", <<Span(SliceFrom(line, 2), <<>>)>>)
  ELSE IF StartsWith(line, <<"#", "#", " ">>) THEN Block("h2", <<Span(SliceFrom(line, 3), <<>>)>>)
  ELSE IF StartsWith(line, <<"#", "#", "#", " ">>) THEN Block("h3", <<Span(SliceFrom(line, 4), <<>>)>>)
  ELSE IF StartsWith(line, <<">", " ">>) THEN Block("blockquote", <<Span(SliceFrom(line, 2), <<>>)>>)
  ELSE Block("normal", parseInlineFormatting(line))

formatBlockContent_KeepBlank(markdown) ==
  LET lines == SplitLines(markdown)
  IN [i \in 1..Len(lines) |-> BlockOfLine(lines[i])]

formatBlockContent(markdown) ==
  LET lines == SelectSeq(SplitLines(markdown), LAMBDA line : ~IsBlank(line))
  IN [i \in 1..Len(lines) |-> BlockOfLine(lines[i])]

\* ---------------------------------------------------- addImagePlaceholders
\* A block of the input, and the placeholder the function inserts; `alt` holds
\* the number the alt text carries.
ContentBlock(j) == [_type |-> "block", _key |-> j]
Placeholder(k) ==
  [_type |-> "image", alt |-> <<"Placeholder", k>>,
   caption |-> "Replace with appropriate image"]

\* Variant: the positions are not reversed before the insertions.
Reverse_Identity(s) == s

\* positions.reverse()
Reverse(s) == [i \in 1..Len(s) |-> s[Len(s) + 1 - i]]

\* newBlocks.splice(pos, 0, x)
Splice(a, pos, x) ==
  LET at == IF pos > Len(a) THEN Len(a) ELSE pos
  IN SubSeq(a, 1, at) \o <<x>> \o SubSeq(a, at + 1, Len(a))

\* spacing * i for i = 1..count
Positions(totalBlocks, count) ==
  [i \in 1..count |-> (totalBlocks \div (count + 1)) * i]

\* positions.reverse().forEach((pos, index) => newBlocks.splice(...)), from
\* `index` on.
RECURSIVE InsertPlaceholders(_, _, _, _)
InsertPlaceholders(newBlocks, reversed, index, count) ==
  IF index >= Len(reversed) THEN newBlocks
  ELSE InsertPlaceholders(
         Splice(newBlocks, reversed[index + 1], Placeholder(count - index)),
         reversed, index + 1, count)

\* addImagePlaceholders: `blocks` is the argument array after the call,
\* `returned` the array the call returns.
addImagePlaceholders(blocks, count) ==
  IF Len(blocks) < 3 THEN [blocks |-> blocks, returned |-> blocks]
  ELSE [blocks |-> blocks,
        returned |-> InsertPlaceholders(
                       blocks, Reverse(Positions(Len(blocks), count)), 0, count)]

\* ------------------------------------------------- collaborators' answers
\* The image the search endpoint may return (its id, urls.regular,
\* alt_description, user.name and user.links.html), with the description it
\* comes with: a text, or "" for an image without one ('' or null).
UnsplashImage(alt_description) ==
  [id |-> "img-1", url |-> "https://images.unsplash.com/img-1",
   alt_description |-> alt_description, photographer |-> "Ana",
   photographerUrl |-> "https://unsplash.com/@ana"]

\* What the generation endpoint writes for one language.
TitleOf(lang) ==
  CASE lang = "ro" -> <<"C", "a", "i", "n", "e", " ", "!">>
    [] lang = "en" -> <<"D", "o", "g">>
    [] lang = "pl" -> <<"P", "i", "e", "s">>
    [] lang = "hu" -> <<"K", "u", "t", "y", "a">>
    [] lang = "cs" -> <<"P", "e", "s">>
ContentOf(lang) ==
  <<"#", " ">> \o TitleOf(lang) \o <<"\n", "\n", "*", "a", "*", " ", "d">>
TagsOf(lang) == <<"dog", "tag-" \o lang>>

\* A value of content[lang]: a string (markdown) or an array (of blocks).
ContentValue(type, value) == [type |-> type, value |-> value]

\* formatBlockContent applied to a markdown body; its results for the bodies
\* the endpoint writes are computed once.
FormattedBodies == [l \in Langs |-> formatBlockContent(ContentOf(l))]
FormatBody(markdown) ==
  IF \E l \in Langs : ContentOf(l) = markdown
  THEN FormattedBodies[CHOOSE l \in Langs : ContentOf(l) = markdown]
  ELSE formatBlockContent(markdown)

\* generateSlug applied to a title; its results for the titles the endpoint
\* writes are computed once.
SlugsOfTitles == [l \in Langs |-> generateSlug(TitleOf(l))]
SlugOf(title) ==
  IF \E l \in Langs : TitleOf(l) = title
  THEN SlugsOfTitles[CHOOSE l \in Langs : TitleOf(l) = title]
  ELSE generateSlug(title)

\* A localized value is a function from the languages that have a (truthy)
\* value to that value.  The formatter copies titles, excerpts and the seo
\* texts, passes an array of blocks through, turns a markdown string into
\* blocks and leaves out a body that is neither.
formatContentForSanity(content) ==
  LET copy(loc) == [l \in DOMAIN loc \cap Range(FormatterLanguages) |-> loc[l]]
      body == content.content
  IN [title |-> copy(content.title),
      excerpt |-> copy(content.excerpt),
      content |->
        [l \in {k \in DOMAIN body \cap Range(FormatterLanguages) :
                  body[k].type \in {"array", "string"}} |->
           IF body[l].type = "array" THEN body[l].value
           ELSE FormatBody(body[l].value)],
      seo |-> IF content.seo # <<>>
              THEN <<[metaTitle |-> copy(content.seo[1].metaTitle),
                      metaDescription |-> copy(content.seo[1].metaDescription)]>>
              ELSE <<>>,
      tags |-> content.tags]

\* An answer to one generation request: "ok" (response.ok, body parsed),
\* "http" (response.ok false), "network" (fetch rejects), "abort" (fetch
\* rejects with an AbortError).  An ok body has, each on its own, the
\* language's title, excerpt, content (a markdown string, an array of blocks,
\* or none), seo texts and tags.
OkAnswer(title, excerpt, content, seo, tags) ==
  [kind |-> "ok", title |-> title, excerpt |-> excerpt, content |-> content,
   seo |-> seo, tags |-> tags]

\* The answers drawn: a body with everything, a body with a title and an
\* array of blocks only, a body with tags only, and the three failures.
GenerationAnswers ==
  {OkAnswer(TRUE, TRUE, "string", TRUE, TRUE),
   OkAnswer(TRUE, FALSE, "array", FALSE, FALSE),
   OkAnswer(FALSE, FALSE, "none", FALSE, TRUE)}
  \cup
  {[OkAnswer(FALSE, FALSE, "none", FALSE, FALSE) EXCEPT !.kind = k] :
     k \in {"http", "network", "abort"}}

\* An answer to the image search: a result with or without a description, an
\* empty result list, a non-ok response, a rejected fetch, a rejected fetch
\* with an AbortError, a fetch rejected with a value that is not an Error.
SearchAnswers ==
  {"found", "found-no-alt", "empty", "http", "network", "abort", "rejected"}

\* An answer to a request of the upload (fetch of the bytes, assets.upload).
UploadAnswers == {"ok", "http", "network", "abort"}

\* What is thrown: an Error (a TypeError, an AbortError, the validation's
\* Error) or, for "rejected", an object that is not an Error.
ErrorOf(kind) ==
  CASE kind = "network" ->
         [isError |-> TRUE, name |-> "TypeError", message |-> NetworkErrorMessage]
    [] kind = "abort" ->
         [isError |-> TRUE, name |-> "AbortError", message |-> "The operation was aborted."]
    [] kind = "validation" ->
         [isError |-> TRUE, name |-> "Error", message |-> ValidationMessage]
    [] kind = "rejected" ->
         [isError |-> FALSE, name |-> "AbortError", message |-> "boom"]

\* GenerateModal's initial form.
DefaultForm ==
  [topic |-> "", category |-> "", keywords |-> <<>>, languages |-> <<"ro">>,
   includeSeo |-> TRUE, featuredImage |-> TRUE, imageKeywords |-> ""]

\* The forms generate is called with (types.ts GenerationFormData): the forms
\* the validation rejects (no topic, no language), with or without a featured
\* image; every list of at most MaxLangs distinct languages (of Romanian,
\* English, Polish) with a category and a keyword; and forms that ask for a
\* featured image, with or without image keywords, whose keywords repeat.
FormData ==
  {f \in [topic : {"", "dogs"},
          category : {""},
          keywords : {<<>>},
          languages : {<<>>, <<"ro">>},
          includeSeo : {FALSE},
          featuredImage : BOOLEAN,
          imageKeywords : {""}] :
     f.topic = "" \/ f.languages = <<>>}
  \cup
  [topic : {"dogs"},
   category : {"cat-1"},
   keywords : {<<"dog">>},
   languages : DistinctSeqs({"ro", "en", "pl"}, MaxLangs) \ {<<>>},
   includeSeo : {TRUE},
   featuredImage : {FALSE},
   imageKeywords : {""}]
  \cup
  [topic : {"dogs"},
   category : {"cat-1"},
   keywords : {<<"dog", "dog">>},
   languages : {<<"ro">>},
   includeSeo : {FALSE},
   featuredImage : {TRUE},
   imageKeywords : {"", "puppy"}]

\* The forms the dialog submits: its initial form as it is (no topic), and
\* its initial form given a topic.
DialogForms == {DefaultForm, [DefaultForm EXCEPT !.topic = "dogs"]}

\* ------------------------------------------------------------------- state
\* state, progress and error are those of the hook instance in use: the
\* instance of the consumer that calls generate itself, or the instance of
\* the GenerateModal mounted last (a dialog opened again is a new
\* GenerateModal with a new useGenerateContent).  Every call of generate has
\* a record in `runs`, with the fields
\*   caller            "modal" (handleSubmit) or "direct"
\*   mounted           the instance that made the call is still the one in use
\*   formData          generate: the argument
\*   pc                where the run is suspended, or how it ended
\*   langIndex         generate: completedLanguages (the loop counter)
\*   featuredImage     generate: featuredImage (the search result)
\*   generatedContent  generate: generatedContent
\*   payload           what generate returned (documentData)
\*   thrown            what generate rethrew
\*   trace             every value the run passed to setState, in order
\*   net               every network request the run issued, in order
\*   searchAnswer      the answer the image search got, if any
\*   genAnswers        the answers the generation requests got, in order
\*   uploadAnswers     the answers the upload's requests got, in order
VARIABLES
  state,             \* useGenerateContent: state
  progress,          \* useGenerateContent: progress
  error,             \* useGenerateContent: error
  runs,              \* the calls of generate made so far
  isModalOpen,       \* GenerateAction: isModalOpen
  closeTimer,        \* handleSubmit: pending setTimeout(onClose, 1000) timers
  patch,             \* handleGeneratedContent: the patch.commit() calls issued
  doc,               \* document store: the fields patches have set
  onCompleteCalls    \* props.onComplete invocations

genVars ==
  <<state, progress, error, runs, isModalOpen, closeTimer, patch, doc,
    onCompleteCalls>>

\* lib/secrets-manager.ts
VARIABLES
  processEnv,    \* process.env: NODE_ENV, VERCEL_ENV, and the secrets set locally
  secretsCache,  \* secretsCache: cache key -> (value, timestamp)
  now,           \* Date.now(), in ms since the process started
  ticks,         \* steps the clock has taken
  pending,       \* the getSecret calls awaiting accessSecretVersion
  out            \* the getSecret call that settled last, and its outcome

secVars == <<processEnv, secretsCache, now, ticks, pending, out>>

\* One call of a pure function.
VARIABLES
  fnCall,        \* the function called and its arguments
  fnResult       \* what the call returned, once it has

fnVars == <<fnCall, fnResult>>

\* getSecrets
VARIABLES
  batch          \* the getSecrets call followed: its arguments, the outcome of
                 \* each getSecret it made, and what it resolved with

\* lib/config.ts
VARIABLES
  configCache,   \* configCache: <<>> (null) or the configuration loaded
  load,          \* the loadConfig calls in progress: one entry per secret each
  lookups,       \* the secret names accessSecretVersion was asked for
  returned       \* what the loadConfig or getConfig call that returned last gave

cfgVars == <<configCache, load, lookups, returned>>

\* hooks/useUnsplashSearch.ts
VARIABLES
  unsplash       \* images, loading, error and the searches in flight

vars == <<genVars, secVars, fnVars, batch, cfgVars, unsplash>>

\* What the steps of one component leave alone.
notGenVars == <<secVars, fnVars, batch, cfgVars, unsplash>>
notSecVars == <<genVars, fnVars, batch, cfgVars, unsplash>>
notFnVars == <<genVars, secVars, batch, cfgVars, unsplash>>
notBatchVars == <<genVars, fnVars, now, ticks, pending, out, cfgVars, unsplash>>
notCfgVars == <<genVars, fnVars, now, ticks, pending, out, batch, unsplash>>

EmptyLocale == [l \in {} |-> <<>>]

InitGen ==
  /\ state = "idle"
  /\ progress = [state |-> "idle", completedLanguages |-> <<>>,
                 currentLanguage |-> Undefined, message |-> Undefined]
  /\ error = Null
  /\ runs = <<>>
  /\ isModalOpen = FALSE
  /\ closeTimer = 0
  /\ patch = <<>>
  /\ doc = {}
  /\ onCompleteCalls = 0

\* --------------------------------------------------------------- generate
\* The hook's state and the variables of run r, as one record the steps of
\* generate transform.
Cur(r) ==
  [state |-> state, progress |-> progress, error |-> error,
   caller |-> runs[r].caller, mounted |-> runs[r].mounted,
   formData |-> runs[r].formData, pc |-> runs[r].pc,
   langIndex |-> runs[r].langIndex, featuredImage |-> runs[r].featuredImage,
   generatedContent |-> runs[r].generatedContent, payload |-> runs[r].payload,
   thrown |-> runs[r].thrown, trace |-> runs[r].trace, net |-> runs[r].net,
   searchAnswer |-> runs[r].searchAnswer, genAnswers |-> runs[r].genAnswers,
   uploadAnswers |-> runs[r].uploadAnswers]

\* The run's own part of such a record.
RunOf(c) ==
  [caller |-> c.caller, mounted |-> c.mounted,
   formData |-> c.formData, pc |-> c.pc,
   langIndex |-> c.langIndex, featuredImage |-> c.featuredImage,
   generatedContent |-> c.generatedContent, payload |-> c.payload,
   thrown |-> c.thrown, trace |-> c.trace, net |-> c.net,
   searchAnswer |-> c.searchAnswer, genAnswers |-> c.genAnswers,
   uploadAnswers |-> c.uploadAnswers]

\* A step of run r leaves c: the run's variables, and the hook's state when
\* the instance that made the call is still the one in use (what the setters
\* of an instance that has been replaced are given is seen by no one).
Apply(r, c) ==
  /\ runs' = [runs EXCEPT ![r] = RunOf(c)]
  /\ IF c.mounted
     THEN state' = c.state /\ progress' = c.progress /\ error' = c.error
     ELSE UNCHANGED <<state, progress, error>>

\* setState(s)
SetState(c, s) == [c EXCEPT !.state = s, !.trace = Append(@, s)]

\* Mutant: only the state value is set, the progress object keeps its tag.
SetPhase_StateOnly(c, s) == SetState(c, s)

\* setState(s); setProgress(prev => ({ ...prev, state: s }))
SetPhase(c, s) == [SetState(c, s) EXCEPT !.progress = [c.progress EXCEPT !.state = s]]

\* A network request, with the phase the run is in when it issues it (the
\* last value it passed to setState).
Request(kind, query, languages, phase) ==
  [kind |-> kind, query |-> query, languages |-> languages, phase |-> phase]

Fetch(c, kind, query, languages, at) ==
  [c EXCEPT !.net = Append(@, Request(kind, query, languages, c.trace[Len(c.trace)])),
            !.pc = at]

\* The outer catch (lines 262-279).
ErrorMessageOf(err) ==
  IF err.isError
  THEN IF err.name = "AbortError" THEN TimeoutMessage ELSE err.message
  ELSE DefaultErrorMessage

Catch(c, err) ==
  [SetState(c, "error") EXCEPT
     !.error = ErrorMessageOf(err),
     !.progress = [c.progress EXCEPT !.state = "error"],
     !.thrown = <<err>>,
     !.pc = "thrown"]

\* Variant: the English title is preferred.
SlugSource_EnglishFirst(title) ==
  IF "en" \in DOMAIN title THEN title["en"]
  ELSE IF "ro" \in DOMAIN title THEN title["ro"] ELSE <<>>

\* title.ro || title.en || ''
SlugSource(title) ==
  IF "ro" \in DOMAIN title THEN title["ro"]
  ELSE IF "en" \in DOMAIN title THEN title["en"] ELSE <<>>

\* Step 6 and 7 (lines 210-261): the payload is assembled and returned.
DocumentData(c, fd, imageAssetId) ==
  LET formattedContent == formatContentForSanity(c.generatedContent)
  IN [title |-> formattedContent.title,
      slug |-> SlugOf(SlugSource(formattedContent.title)),
      excerpt |-> formattedContent.excerpt,
      featuredImage |->
        IF imageAssetId # <<>>
        THEN <<[ref |-> imageAssetId[1],
                alt |-> c.generatedContent.featuredImage[1].alt,
                caption |-> "Photo by " \o c.generatedContent.featuredImage[1].photographer]>>
        ELSE <<>>,
      content |-> formattedContent.content,
      categories |-> IF fd.category # "" THEN <<fd.category>> ELSE <<>>,
      tags |-> c.generatedContent.tags,
      seo |-> c.generatedContent.seo,
      publishedAt |-> "2026-10-29T00:00:00.000Z",  \* new Date().toISOString()
      featured |-> FALSE]

\* Mutant: the 'saving' phase is never announced.
Finish_NoSaving(c, fd, imageAssetId) ==
  [SetState(c, "complete") EXCEPT
     !.progress = [state |-> "complete", completedLanguages |-> fd.languages,
                   currentLanguage |-> Undefined, message |-> Undefined],
     !.payload = <<DocumentData(c, fd, imageAssetId)>>,
     !.pc = "returned"]

\* Mutant: generate saves the document itself while in 'saving'.
Finish_Commits(c, fd, imageAssetId) ==
  LET c1 == SetPhase(c, "saving")
      c2 == [c1 EXCEPT !.net = Append(@, Request("commit", "", <<>>, "saving"))]
  IN [SetState(c2, "complete") EXCEPT
        !.progress = [state |-> "complete", completedLanguages |-> fd.languages,
                      currentLanguage |-> Undefined, message |-> Undefined],
        !.payload = <<DocumentData(c, fd, imageAssetId)>>,
        !.pc = "returned"]

Finish(c, fd, imageAssetId) ==
  [SetState(SetPhase(c, "saving"), "complete") EXCEPT
     !.progress = [state |-> "complete", completedLanguages |-> fd.languages,
                   currentLanguage |-> Undefined, message |-> Undefined],
     !.payload = <<DocumentData(c, fd, imageAssetId)>>,
     !.pc = "returned"]

\* Step 4 and the start of step 5 (lines 185-202).
Format(c, fd) ==
  LET c1 == SetPhase(c, "formatting")
  IN IF c.featuredImage # <<>> /\ c.generatedContent.featuredImage # <<>>
     THEN Fetch(c1, "image-bytes", c.generatedContent.featuredImage[1].url, <<>>, "upload-fetch")
     ELSE Finish(c1, fd, <<>>)

\* ProgressIndicator.getStateMessage: the text shown for a state and progress.
\* A message or a language that is undefined or the empty string is falsy.
getStateMessage(st, pr) ==
  IF pr.message \notin {Undefined, ""} THEN pr.message
  ELSE CASE st = "validating" -> "Validating input..."
         [] st = "searching-images" -> "Searching for images..."
         [] st = "generating" ->
              IF pr.currentLanguage \notin {Undefined, ""}
              THEN "Generating content in " \o pr.currentLanguage \o "..."
              ELSE "Generating content..."
         [] st = "formatting" -> "Formatting content..."
         [] st = "saving" -> "Saving document..."
         [] st = "complete" -> "Generation complete!"
         [] OTHER -> "Processing..."

ProgressMessage(lang, k, n) ==
  "Generating " \o ToUpperCase(lang) \o " content (" \o ToString(k) \o "/" \o ToString(n) \o ")..."

\* Mutant: every request carries the whole language list.
NextLanguage_Batched(c, fd) ==
  LET k == c.langIndex + 1
  IN IF k > Len(fd.languages) THEN Format(c, fd)
     ELSE Fetch([c EXCEPT
                   !.langIndex = k,
                   !.progress = [state |-> "generating", completedLanguages |-> <<>>,
                                 currentLanguage |-> fd.languages[k],
                                 message |-> ProgressMessage(fd.languages[k], k, Len(fd.languages))]],
                "generate", "", fd.languages, "gen")

\* The head of the loop (lines 117-138), or what follows the loop.
NextLanguage(c, fd) ==
  LET k == c.langIndex + 1
  IN IF k > Len(fd.languages) THEN Format(c, fd)
     ELSE Fetch([c EXCEPT
                   !.langIndex = k,
                   !.progress = [state |-> "generating", completedLanguages |-> <<>>,
                                 currentLanguage |-> fd.languages[k],
                                 message |-> ProgressMessage(fd.languages[k], k, Len(fd.languages))]],
                "generate", "", <<fd.languages[k]>>, "gen")

\* Lines 82-114.
EnterGenerating(c, fd, image) ==
  NextLanguage(
    [SetState(c, "generating") EXCEPT
       !.featuredImage = image,
       !.langIndex = 0,
       !.generatedContent =
          [title |-> EmptyLocale, excerpt |-> EmptyLocale, content |-> EmptyLocale,
           tags |-> fd.keywords,
           featuredImage |->
             IF image # <<>>
             THEN <<[url |-> image[1].url,
                     alt |-> IF image[1].alt_description # ""
                             THEN image[1].alt_description
                             ELSE "Image related to " \o fd.topic,
                     photographer |-> image[1].photographer,
                     photographerUrl |-> image[1].photographerUrl,
                     unsplashId |-> image[1].id]>>
             ELSE <<>>,
           seo |-> IF fd.includeSeo
                   THEN <<[metaTitle |-> EmptyLocale, metaDescription |-> EmptyLocale]>>
                   ELSE <<>>]],
    fd)

\* lines 43-45
Invalid(fd) == fd.topic = "" \/ Len(fd.languages) = 0

\* Lines 33-38: the call resets the hook's state; the run has nothing yet.
Called(fd, who) ==
  [state |-> "validating",
   progress |-> [state |-> "validating", completedLanguages |-> <<>>,
                 currentLanguage |-> Undefined, message |-> Undefined],
   error |-> Null,
   caller |-> who, mounted |-> TRUE, formData |-> fd, pc |-> "called",
   langIndex |-> 0, featuredImage |-> <<>>,
   generatedContent |-> [title |-> EmptyLocale, excerpt |-> EmptyLocale,
                         content |-> EmptyLocale, tags |-> <<>>,
                         featuredImage |-> <<>>, seo |-> <<>>],
   payload |-> <<>>, thrown |-> <<>>, trace |-> <<"validating">>, net |-> <<>>,
   searchAnswer |-> <<>>, genAnswers |-> <<>>, uploadAnswers |-> <<>>]

\* Mutant: the image search is issued before the form is validated.
Begin_SearchFirst(c0) ==
  LET fd == c0.formData
  IN IF fd.featuredImage
     THEN Fetch(SetPhase(c0, "searching-images"), "search",
                IF fd.imageKeywords # "" THEN fd.imageKeywords ELSE fd.topic,
                <<>>, "search")
     ELSE IF Invalid(fd) THEN Catch(c0, ErrorOf("validation"))
          ELSE EnterGenerating(c0, fd, <<>>)

\* Lines 40-68: from the validation to the first await, or to the rethrow.
Begin(c0) ==
  LET fd == c0.formData
  IN IF Invalid(fd) THEN Catch(c0, ErrorOf("validation"))
     ELSE IF fd.featuredImage
          THEN Fetch(SetPhase(c0, "searching-images"), "search",
                     IF fd.imageKeywords # "" THEN fd.imageKeywords ELSE fd.topic,
                     <<>>, "search")
          ELSE EnterGenerating(c0, fd, <<>>)

\* handleGeneratedContent, lines 19-58: the fields the patch sets.
PatchFields(generatedData) ==
  {"title", "slug", "excerpt", "content", "categories", "tags", "publishedAt",
   "featured"}
    \cup (IF generatedData.featuredImage # <<>> THEN {"featuredImage"} ELSE {})
    \cup (IF generatedData.seo # <<>> THEN {"seo"} ELSE {})

\* handleSubmit after `await generate(...)`, lines 92-109, with
\* handleGeneratedContent up to its `await patch.commit()`.  It runs when
\* generate has returned or rethrown, before any other event is handled.
SubmitResume(r, c) ==
  IF c.caller = "modal" /\ c.pc = "returned"
  THEN /\ patch' = Append(patch, [status |-> "inflight", call |-> r,
                                   fields |-> PatchFields(c.payload[1])])
       /\ closeTimer' = closeTimer + 1
  ELSE UNCHANGED <<patch, closeTimer>>

\* The run is suspended at an await.
InFlight(run) == run.pc \in {"search", "gen", "upload-fetch", "upload-store"}

\* A call of generate, up to its first await or to its end.  Nothing keeps
\* generate from being called while an earlier call is suspended.
GenerateCall(fd, who) ==
  /\ Len(runs) < MaxCalls
  /\ LET r == Len(runs) + 1
         c == Begin(Called(fd, who))
     IN /\ runs' = Append(runs, RunOf(c))
        /\ state' = c.state
        /\ progress' = c.progress
        /\ error' = c.error
        /\ SubmitResume(r, c)
  /\ UNCHANGED <<isModalOpen, doc, onCompleteCalls, notGenVars>>

\* generate called by a consumer of the hook.
Generate(fd) == GenerateCall(fd, "direct")

\* GenerateModal.handleSubmit, lines 70-90, called by the Generate button of
\* the dialog that is open, which is disabled while isGenerating (part_002
\* 116, 368).
HandleSubmit(fd) ==
  /\ isModalOpen
  /\ state \in {"idle", "error", "complete"}
  /\ IF Invalid(fd) THEN UNCHANGED vars ELSE GenerateCall(fd, "modal")

\* A step of run r that an answer resumes, up to the next await or to the
\* run's end.
Resumed(r, c) ==
  /\ Apply(r, c)
  /\ SubmitResume(r, c)
  /\ UNCHANGED <<isModalOpen, doc, onCompleteCalls, notGenVars>>

\* The image search answers (lines 64-80).
SearchAnswer(r, a) ==
  /\ r \in 1..Len(runs)
  /\ runs[r].pc = "search"
  /\ LET c == [Cur(r) EXCEPT !.searchAnswer = <<a>>]
     IN Resumed(r, CASE a = "found" ->
                          EnterGenerating(c, c.formData, <<UnsplashImage("a happy dog")>>)
                     [] a = "found-no-alt" ->
                          EnterGenerating(c, c.formData, <<UnsplashImage("")>>)
                     [] a \in {"empty", "http"} -> EnterGenerating(c, c.formData, <<>>)
                     [] a \in {"network", "abort", "rejected"} -> Catch(c, ErrorOf(a)))

\* Mutant: the tags of every language are merged.
Merge_EveryLanguage(gc, fd, lang, k, answer) ==
  LET put(loc, v) == [l \in DOMAIN loc \cup {lang} |-> IF l = lang THEN v ELSE loc[l]]
  IN [gc EXCEPT
        !.title = IF answer.title THEN put(@, TitleOf(lang)) ELSE @,
        !.excerpt = IF answer.excerpt THEN put(@, "excerpt-" \o lang) ELSE @,
        !.content =
          CASE answer.content = "string" ->
                 put(@, ContentValue("string", ContentOf(lang)))
            [] answer.content = "array" ->
                 put(@, ContentValue("array", <<Block("normal", <<Span(<<"x">>, <<>>)>>)>>))
            [] OTHER -> @,
        !.seo =
          IF fd.includeSeo /\ answer.seo
          THEN <<[metaTitle |-> put(@[1].metaTitle, "meta-title-" \o lang),
                  metaDescription |-> put(@[1].metaDescription, "meta-description-" \o lang)]>>
          ELSE @,
        !.tags = IF answer.tags THEN Dedup(@ \o TagsOf(lang)) ELSE @]

\* Variant: the tags of the first language that answered with content are
\* merged.
Merge_FirstSuccess(gc, fd, lang, k, answer) ==
  LET put(loc, v) == [l \in DOMAIN loc \cup {lang} |-> IF l = lang THEN v ELSE loc[l]]
  IN [gc EXCEPT
        !.title = IF answer.title THEN put(@, TitleOf(lang)) ELSE @,
        !.excerpt = IF answer.excerpt THEN put(@, "excerpt-" \o lang) ELSE @,
        !.content =
          CASE answer.content = "string" ->
                 put(@, ContentValue("string", ContentOf(lang)))
            [] answer.content = "array" ->
                 put(@, ContentValue("array", <<Block("normal", <<Span(<<"x">>, <<>>)>>)>>))
            [] OTHER -> @,
        !.seo =
          IF fd.includeSeo /\ answer.seo
          THEN <<[metaTitle |-> put(@[1].metaTitle, "meta-title-" \o lang),
                  metaDescription |-> put(@[1].metaDescription, "meta-description-" \o lang)]>>
          ELSE @,
        !.tags = IF DOMAIN gc.title = {} /\ answer.tags
                 THEN Dedup(@ \o TagsOf(lang)) ELSE @]

\* Lines 149-175: the answer of one language merged.
Merge(gc, fd, lang, k, answer) ==
  LET put(loc, v) == [l \in DOMAIN loc \cup {lang} |-> IF l = lang THEN v ELSE loc[l]]
  IN [gc EXCEPT
        !.title = IF answer.title THEN put(@, TitleOf(lang)) ELSE @,
        !.excerpt = IF answer.excerpt THEN put(@, "excerpt-" \o lang) ELSE @,
        !.content =
          CASE answer.content = "string" ->
                 put(@, ContentValue("string", ContentOf(lang)))
            [] answer.content = "array" ->
                 put(@, ContentValue("array", <<Block("normal", <<Span(<<"x">>, <<>>)>>)>>))
            [] OTHER -> @,
        !.seo =
          IF fd.includeSeo /\ answer.seo
          THEN <<[metaTitle |-> put(@[1].metaTitle, "meta-title-" \o lang),
                  metaDescription |-> put(@[1].metaDescription, "meta-description-" \o lang)]>>
          ELSE @,
        !.tags = IF k = 1 /\ answer.tags THEN Dedup(@ \o TagsOf(lang)) ELSE @]

\* Mutant: no inner try/catch, a rejected request ends the run.
GenerationAnswer_NoInnerCatch(r, a) ==
  /\ r \in 1..Len(runs)
  /\ runs[r].pc = "gen"
  /\ LET c == [Cur(r) EXCEPT !.genAnswers = Append(@, a)]
         fd == c.formData
         lang == fd.languages[c.langIndex]
     IN Resumed(r, IF a.kind = "ok"
                   THEN NextLanguage([c EXCEPT !.generatedContent =
                                        Merge(@, fd, lang, c.langIndex, a)], fd)
                   ELSE IF a.kind = "http" THEN NextLanguage(c, fd)
                   ELSE Catch(c, ErrorOf(a.kind)))

\* Variant: the answer is dropped once the dialog has been dismissed.
GenerationAnswer_OnlyWhileOpen(r, a) ==
  /\ r \in 1..Len(runs)
  /\ runs[r].pc = "gen"
  /\ runs[r].caller = "modal" => isModalOpen
  /\ LET c == [Cur(r) EXCEPT !.genAnswers = Append(@, a)]
         fd == c.formData
         lang == fd.languages[c.langIndex]
     IN Resumed(r, IF a.kind = "ok"
                   THEN NextLanguage([c EXCEPT !.generatedContent =
                                        Merge(@, fd, lang, c.langIndex, a)], fd)
                   ELSE NextLanguage(c, fd))

\* One generation request answers (lines 140-181).
GenerationAnswer(r, a) ==
  /\ r \in 1..Len(runs)
  /\ runs[r].pc = "gen"
  /\ LET c == [Cur(r) EXCEPT !.genAnswers = Append(@, a)]
         fd == c.formData
         lang == fd.languages[c.langIndex]
     IN Resumed(r, IF a.kind = "ok"
                   THEN NextLanguage([c EXCEPT !.generatedContent =
                                        Merge(@, fd, lang, c.langIndex, a)], fd)
                   ELSE NextLanguage(c, fd))

\* uploadImageToSanity: the fetch of the image answers (lines 11-19).
UploadFetchAnswer(r, a) ==
  /\ r \in 1..Len(runs)
  /\ runs[r].pc = "upload-fetch"
  /\ LET c == [Cur(r) EXCEPT !.uploadAnswers = Append(@, a)]
     IN Resumed(r, IF a = "ok"
                   THEN Fetch(c, "asset-upload", "unsplash-" \o c.featuredImage[1].id,
                              <<>>, "upload-store")
                   ELSE Finish(c, c.formData, <<>>))

\* Mutant: a failed asset store is not caught by generate.
UploadStoreAnswer_Fatal(r, a) ==
  /\ r \in 1..Len(runs)
  /\ runs[r].pc = "upload-store"
  /\ LET c == [Cur(r) EXCEPT !.uploadAnswers = Append(@, a)]
     IN Resumed(r, IF a = "ok"
                   THEN Finish(c, c.formData, <<"image-asset-" \o c.featuredImage[1].id>>)
                   ELSE Catch(c, [isError |-> TRUE, name |-> "Error",
                                  message |-> "Failed to upload image"]))

\* uploadImageToSanity: client.assets.upload answers (lines 19-34).
UploadStoreAnswer(r, a) ==
  /\ r \in 1..Len(runs)
  /\ runs[r].pc = "upload-store"
  /\ LET c == [Cur(r) EXCEPT !.uploadAnswers = Append(@, a)]
     IN Resumed(r, IF a = "ok"
                   THEN Finish(c, c.formData, <<"image-asset-" \o c.featuredImage[1].id>>)
                   ELSE Finish(c, c.formData, <<>>))

\* The network call run r awaits answers, with one of the answers given.
RunStep(r, toSearch, toGeneration, toUpload) ==
  \/ \E a \in toSearch : SearchAnswer(r, a)
  \/ \E a \in toGeneration : GenerationAnswer(r, a)
  \/ \E a \in toUpload : UploadFetchAnswer(r, a)
  \/ \E a \in toUpload : UploadStoreAnswer(r, a)


\* A consumer of the hook that calls generate itself.
Next ==
  \/ \E fd \in FormData : Generate(fd)
  \/ \E r \in 1..MaxCalls : RunStep(r, SearchAnswers, GenerationAnswers, UploadAnswers)

\* ------------------------------------------- GenerateModal, GenerateAction
\* GenerateAction.onHandle: a GenerateModal is mounted, with a hook instance
\* of its own; the runs of earlier instances go on without it.
OpenModal ==
  /\ ~isModalOpen
  /\ isModalOpen' = TRUE
  /\ state' = "idle"
  /\ progress' = [state |-> "idle", completedLanguages |-> <<>>,
                  currentLanguage |-> Undefined, message |-> Undefined]
  /\ error' = Null
  /\ runs' = [i \in 1..Len(runs) |-> [runs[i] EXCEPT !.mounted = FALSE]]
  /\ UNCHANGED <<closeTimer, patch, doc, onCompleteCalls, notGenVars>>

\* The dialog's onClose (the close button of the Dialog, or Cancel).
CloseModal ==
  /\ isModalOpen
  /\ isModalOpen' = FALSE
  /\ UNCHANGED <<state, progress, error, runs, closeTimer, patch, doc,
                 onCompleteCalls, notGenVars>>

\* patch.commit() answers (lines 64-73).
CommitAnswer(i, ok) ==
  /\ i \in 1..Len(patch)
  /\ patch[i].status = "inflight"
  /\ IF ok
     THEN /\ patch' = [patch EXCEPT ![i].status = "committed"]
          /\ doc' = doc \cup patch[i].fields
          /\ onCompleteCalls' = onCompleteCalls + 1
     ELSE /\ patch' = [patch EXCEPT ![i].status = "failed"]
          /\ UNCHANGED <<doc, onCompleteCalls>>
  /\ UNCHANGED <<state, progress, error, runs, isModalOpen, closeTimer, notGenVars>>

\* The setTimeout of handleSubmit fires: onClose().
CloseTimerFires ==
  /\ closeTimer > 0
  /\ closeTimer' = closeTimer - 1
  /\ isModalOpen' = FALSE
  /\ UNCHANGED <<state, progress, error, runs, patch, doc, onCompleteCalls, notGenVars>>

\* A run started from the dialog goes on: the search finds an image or is
\* rejected, a generation request answers with a whole body or is rejected,
\* a request of the upload succeeds or is rejected.
DialogStep(r) ==
  RunStep(r, {"found", "network"},
          {a \in GenerationAnswers : a.kind = "network" \/ (a.kind = "ok" /\ a.seo)},
          {"ok", "network"})

\* The document action with its dialog.
NextDialog ==
  \/ \E fd \in DialogForms : HandleSubmit(fd)
  \/ \E r \in 1..MaxCalls : DialogStep(r)
  \/ \E i \in 1..MaxCalls, ok \in BOOLEAN : CommitAnswer(i, ok)
  \/ CloseTimerFires
  \/ OpenModal
  \/ CloseModal

\* ======================================================= secrets-manager.ts
CACHE_TIMEOUT == 5 * 60 * 1000

DefaultProject == "careful-drummer-468512-p0"

\* Secret names are sequences of characters.
K == <<"K">>
PROD == <<"_", "P", "R", "O", "D">>
STG == <<"_", "S", "T", "G">>
DEV == <<"_", "D", "E", "V">>

Unset == "unset"

\* getEnvironment (lines 22-34)
getEnvironment(penv) ==
  LET env == IF penv.NODE_ENV = Unset THEN "development" ELSE penv.NODE_ENV
  IN IF penv.VERCEL_ENV = "production" THEN "production"
     ELSE IF penv.VERCEL_ENV = "preview" THEN "staging"
     ELSE IF env = "production" THEN "production"
     ELSE IF env = "test" \/ env = "staging" THEN "staging"
     ELSE "development"

\* suffixMap (lines 71-75)
SuffixOf(env) ==
  CASE env = "production" -> PROD [] env = "staging" -> STG [] env = "development" -> DEV

\* Variant: the check for an existing suffix (lines 80-84) is missing.
formatSecretName_Resuffix(penv, secretName, environment) ==
  LET env == IF environment # <<>> THEN environment[1] ELSE getEnvironment(penv)
  IN IF env = "development" THEN secretName
     ELSE secretName \o SuffixOf(env)

\* formatSecretName (lines 64-93); `environment` is <<>> when not given.
formatSecretName(penv, secretName, environment) ==
  LET env == IF environment # <<>> THEN environment[1] ELSE getEnvironment(penv)
  IN IF EndsWith(secretName, PROD) \/ EndsWith(secretName, STG) \/ EndsWith(secretName, DEV)
     THEN secretName
     ELSE IF env = "development" THEN secretName
     ELSE secretName \o SuffixOf(env)

\* `${projectId}/${formattedSecretName}` (line 117)
CacheKey(projectId, formattedSecretName) == <<projectId, "/">> \o formattedSecretName

\* The process environments followed: (NODE_ENV, VERCEL_ENV) and the secret
\* names that have a value in process.env.
ProcessEnvs ==
  {[NODE_ENV |-> Unset, VERCEL_ENV |-> Unset, locals |-> {K}],
   [NODE_ENV |-> "production", VERCEL_ENV |-> Unset, locals |-> {}],
   [NODE_ENV |-> "development", VERCEL_ENV |-> "preview", locals |-> {K}]}

LocalValue(secretName) == "local-value"

\* The arguments of the getSecret calls followed.
SecretRequests ==
  [secretName : {K, K \o PROD},
   environment : {<<>>, <<"production">>},
   useCache : BOOLEAN,
   projectId : {DefaultProject}]

\* What accessSecretVersion answers: a payload, a rejection (NOT_FOUND,
\* PERMISSION_DENIED, ...), or a version without data.
RemoteAnswers ==
  {[kind |-> "ok", value |-> "v1"], [kind |-> "ok", value |-> "v2"],
   [kind |-> "rejected", value |-> ""], [kind |-> "no-data", value |-> ""]}

EmptyCache == [k \in {} |-> [value |-> "", timestamp |-> 0]]

NoOutcome ==
  [secretName |-> <<>>, key |-> <<>>, useCache |-> TRUE, status |-> "none",
   value |-> "", seq |-> 0]

InitSecretsIdle ==
  /\ processEnv = [NODE_ENV |-> Unset, VERCEL_ENV |-> Unset, locals |-> {}]
  /\ secretsCache = EmptyCache
  /\ now = 0
  /\ ticks = 0
  /\ pending = <<>>
  /\ out = NoOutcome

InitSecrets ==
  /\ processEnv \in ProcessEnvs
  /\ secretsCache = EmptyCache
  /\ now = 0
  /\ ticks = 0
  /\ pending = <<>>
  /\ out = NoOutcome

\* Variant: an entry exactly CACHE_TIMEOUT old still counts as fresh.
CacheHit_Inclusive(cache, key, t) ==
  key \in DOMAIN cache /\ t - cache[key].timestamp <= CACHE_TIMEOUT

\* line 122: cached && Date.now() - cached.timestamp < CACHE_TIMEOUT
CacheHit(cache, key, t) ==
  key \in DOMAIN cache /\ t - cache[key].timestamp < CACHE_TIMEOUT

\* lines 129-131: the development override from process.env
LocalOverride(penv, secretName) ==
  getEnvironment(penv) = "development" /\ secretName \in penv.locals

Settled(call, status, value) ==
  [secretName |-> call.secretName, key |-> call.key, useCache |-> call.useCache,
   status |-> status, value |-> value, seq |-> 1 - out.seq]

\* getSecret up to its await (lines 109-147): the value comes from the cache,
\* from process.env, or a remote call is issued.
GetSecretCall(req) ==
  LET formatted == formatSecretName(processEnv, req.secretName, req.environment)
      key == CacheKey(req.projectId, formatted)
      call == [secretName |-> req.secretName, key |-> key, useCache |-> req.useCache]
  IN /\ IF req.useCache /\ CacheHit(secretsCache, key, now)
        THEN /\ out' = Settled(call, "cache", secretsCache[key].value)
             /\ UNCHANGED pending
        ELSE IF LocalOverride(processEnv, req.secretName)
             THEN /\ out' = Settled(call, "local", LocalValue(req.secretName))
                  /\ UNCHANGED pending
             ELSE /\ Len(pending) < MaxPending
                  /\ pending' = Append(pending, call)
                  /\ UNCHANGED out
     /\ UNCHANGED <<processEnv, secretsCache, now, ticks>>
     /\ UNCHANGED notSecVars

RemoveAt(q, i) == SubSeq(q, 1, i - 1) \o SubSeq(q, i + 1, Len(q))

\* lines 157-162
CacheSet(cache, key, value, t) ==
  [k \in DOMAIN cache \cup {key} |->
     IF k = key THEN [value |-> value, timestamp |-> t] ELSE cache[k]]

\* accessSecretVersion answers (lines 147-190).
RemoteAnswer(i, answer) ==
  /\ i \in 1..Len(pending)
  /\ pending' = RemoveAt(pending, i)
  /\ IF answer.kind = "ok"
     THEN /\ out' = Settled(pending[i], "resolved", answer.value)
          /\ secretsCache' =
               IF pending[i].useCache
               THEN CacheSet(secretsCache, pending[i].key, answer.value, now)
               ELSE secretsCache
     ELSE /\ out' = Settled(pending[i], "rejected",
                            IF getEnvironment(processEnv) = "development"
                            THEN "setup-help" ELSE answer.kind)
          /\ UNCHANGED secretsCache
  /\ UNCHANGED <<processEnv, now, ticks>>
  /\ UNCHANGED notSecVars

\* clearSecretsCache (lines 235-238)
ClearSecretsCache ==
  /\ secretsCache' = EmptyCache
  /\ UNCHANGED <<processEnv, now, ticks, pending, out>>
  /\ UNCHANGED notSecVars

\* Time passes.
Tick(d) ==
  /\ ticks < MaxTicks
  /\ now' = now + d
  /\ ticks' = ticks + 1
  /\ UNCHANGED <<processEnv, secretsCache, pending, out>>
  /\ UNCHANGED notSecVars

NextSecrets ==
  \/ \E req \in SecretRequests : GetSecretCall(req)
  \/ \E i \in 1..Len(pending), answer \in RemoteAnswers : RemoteAnswer(i, answer)
  \/ ClearSecretsCache
  \/ \E d \in {1, CACHE_TIMEOUT - 1} : Tick(d)

\* ------------------------------------------------------------- getSecrets
NoBatch ==
  [names |-> <<>>, useCache |-> TRUE, slots |-> <<>>, outcome |-> "none",
   results |-> [n \in {} |-> ""]]

InitBatchIdle == batch = NoBatch

\* What one getSecret of the batch has come to: still awaiting
\* accessSecretVersion, resolved with a value, or rejected.
Slot(status, value) == [status |-> status, value |-> value]

\* getSecret up to its await, for one name of the batch (lines 109-147).
SlotAtCall(secretName, useCache) ==
  LET key == CacheKey(DefaultProject, formatSecretName(processEnv, secretName, <<>>))
  IN IF useCache /\ CacheHit(secretsCache, key, now)
     THEN Slot("resolved", secretsCache[key].value)
     ELSE IF LocalOverride(processEnv, secretName)
          THEN Slot("resolved", LocalValue(secretName))
          ELSE Slot("pending", "")

\* results.set(secretName, value) for every value that is not null, in the
\* order of the list (lines 223-227).
BatchResults(names, slots) ==
  LET ok == {i \in 1..Len(names) : slots[i].status = "resolved"}
  IN [n \in {names[i] : i \in ok} |->
        slots[CHOOSE i \in ok : names[i] = n /\ \A j \in ok : names[j] = n => j <= i].value]

\* Variant: no try/catch around each getSecret, so that Promise.all rejects
\* with the first rejection.
BatchSettled_FailFast(names, useCache, slots) ==
  IF \E i \in 1..Len(slots) : slots[i].status = "rejected"
  THEN [names |-> names, useCache |-> useCache, slots |-> slots,
        outcome |-> "rejected", results |-> [n \in {} |-> ""]]
  ELSE IF \E i \in 1..Len(slots) : slots[i].status = "pending"
  THEN [names |-> names, useCache |-> useCache, slots |-> slots,
        outcome |-> "running", results |-> [n \in {} |-> ""]]
  ELSE [names |-> names, useCache |-> useCache, slots |-> slots,
        outcome |-> "resolved", results |-> BatchResults(names, slots)]

\* Promise.all over the per-name promises, each with its own try/catch
\* (lines 210-229): the batch resolves once every getSecret has settled.
BatchSettled(names, useCache, slots) ==
  IF \E i \in 1..Len(slots) : slots[i].status = "pending"
  THEN [names |-> names, useCache |-> useCache, slots |-> slots,
        outcome |-> "running", results |-> [n \in {} |-> ""]]
  ELSE [names |-> names, useCache |-> useCache, slots |-> slots,
        outcome |-> "resolved", results |-> BatchResults(names, slots)]

\* getSecrets(secretNames, {useCache}) (lines 199-220): every getSecret is
\* started before any of them is answered.
GetSecretsCall(names, useCache) ==
  /\ batch.outcome # "running"
  /\ batch' = BatchSettled(names, useCache,
                           [i \in 1..Len(names) |-> SlotAtCall(names[i], useCache)])
  /\ UNCHANGED <<processEnv, secretsCache, notBatchVars>>

\* accessSecretVersion answers the getSecret of one name (lines 147-190).
BatchRemoteAnswer(i, answer) ==
  /\ batch.outcome = "running"
  /\ i \in 1..Len(batch.slots)
  /\ batch.slots[i].status = "pending"
  /\ LET key == CacheKey(DefaultProject,
                         formatSecretName(processEnv, batch.names[i], <<>>))
         slot == IF answer.kind = "ok" THEN Slot("resolved", answer.value)
                 ELSE Slot("rejected", "")
     IN /\ batch' = BatchSettled(batch.names, batch.useCache,
                                 [batch.slots EXCEPT ![i] = slot])
        /\ secretsCache' =
             IF answer.kind = "ok" /\ batch.useCache
             THEN CacheSet(secretsCache, key, answer.value, now)
             ELSE secretsCache
  /\ UNCHANGED <<processEnv, notBatchVars>>

NextBatch ==
  \/ \E names \in UNION {[1..n -> {K, K \o PROD, K \o STG}] : n \in 0..MaxNames},
        useCache \in BOOLEAN :
       GetSecretsCall(names, useCache)
  \/ \E i \in 1..MaxNames, answer \in RemoteAnswers : BatchRemoteAnswer(i, answer)

\* ------------------------------------------------------------- loadConfig
\* The secret names and environment variable names of lines 51-55.
SANITY_API_TOKEN == <<"SANITY_API_TOKEN">>
SANITY_API_TOKEN_STG == SANITY_API_TOKEN \o STG

ConfigSecrets ==
  {"sanityApiToken", "supabaseServiceKey", "supabaseAnonKey", "unsplashAccessKey"}

\* The getSecretWithFallback calls behind each secret of the configuration,
\* the next one made when the one before gave no value (lines 51-55).
FallbackChain(secret) ==
  CASE secret = "sanityApiToken" ->
         <<[secretName |-> SANITY_API_TOKEN_STG, envVarName |-> SANITY_API_TOKEN_STG],
           [secretName |-> SANITY_API_TOKEN, envVarName |-> SANITY_API_TOKEN]>>
    [] secret = "supabaseServiceKey" ->
         <<[secretName |-> <<"SUPABASE_SERVICE_KEY">>,
            envVarName |-> <<"SUPABASE_SERVICE_KEY">>]>>
    [] secret = "supabaseAnonKey" ->
         <<[secretName |-> <<"SUPABASE_ANON_KEY">>,
            envVarName |-> <<"NEXT_PUBLIC_SUPABASE_ANON_KEY">>]>>
    [] secret = "unsplashAccessKey" ->
         <<[secretName |-> <<"UNSPLASH_ACCESS_KEY">>,
            envVarName |-> <<"UNSPLASH_ACCESS_KEY">>]>>

\* The value the secret store holds under a qualified secret name.
StoredValue(formattedSecretName) == <<"secret:">> \o formattedSecretName

\* The state of one secret of a load: which call of its chain it is at, and
\* whether that call awaits accessSecretVersion, gave a value, or gave none.
Entry(attempt, status, value) == [attempt |-> attempt, status |-> status, value |-> value]

\* getSecretWithFallback up to the await inside getSecret (lines 244-259 and
\* 109-147), for call number k of a secret's chain.
EntryAtCall(secret, k, cache) ==
  LET a == FallbackChain(secret)[k]
      key == CacheKey(DefaultProject, formatSecretName(processEnv, a.secretName, <<>>))
  IN IF a.envVarName \in processEnv.locals
     THEN Entry(k, "value", <<"env:">> \o a.envVarName)
     ELSE IF CacheHit(cache, key, now)
     THEN Entry(k, "value", cache[key].value)
     ELSE IF LocalOverride(processEnv, a.secretName)
     THEN Entry(k, "value", LocalValue(a.secretName))
     ELSE Entry(k, "pending", <<>>)

\* The name a pending entry asked accessSecretVersion for.
LookupOf(secret, entry) ==
  formatSecretName(processEnv, FallbackChain(secret)[entry.attempt].secretName, <<>>)

InitCfgIdle ==
  /\ configCache = <<>>
  /\ load = <<>>
  /\ lookups = {}
  /\ returned = [config |-> <<>>, by |-> "none", cached |-> FALSE, seq |-> 0]

\* A call returns a Config, the cached one (line 36, line 119) or the one it
\* built (line 89); the calls that return are told apart by seq.
Return(config, by, cached) ==
  [config |-> config, by |-> by, cached |-> cached, seq |-> 1 - returned.seq]

\* A load whose chains are at `entries` waits at the await of Promise.all
\* (line 49): the lookups its pending entries ask for are recorded.  Nothing
\* is built or cached before the load resumes, also when every secret has
\* settled already.
LoadStep(others, entries, cache, by) ==
  /\ secretsCache' = cache
  /\ lookups' = lookups \cup
       {LookupOf(secret, entries[secret]) :
          secret \in {x \in DOMAIN entries : entries[x].status = "pending"}}
  /\ load' = Append(others, [entries |-> entries, by |-> by])
  /\ UNCHANGED <<configCache, returned>>

\* Variant: loadConfig without the check of configCache at lines 35-37.
ConfigCall_NoCacheCheck(by) ==
  /\ Len(load) < MaxLoads
  /\ LoadStep(load, [x \in ConfigSecrets |-> EntryAtCall(x, 1, secretsCache)],
              secretsCache, by)
  /\ UNCHANGED <<processEnv, notCfgVars>>

\* loadConfig (lines 33-56), called directly or by getConfig (lines 115-120):
\* the cached Config is returned, or the four chains are started together
\* and the call waits for them.
ConfigCall(by) ==
  /\ IF configCache # <<>>
     THEN /\ returned' = Return(configCache[1], by, TRUE)
          /\ UNCHANGED <<secretsCache, configCache, load, lookups>>
     ELSE /\ Len(load) < MaxLoads
          /\ LoadStep(load, [x \in ConfigSecrets |-> EntryAtCall(x, 1, secretsCache)],
                      secretsCache, by)
  /\ UNCHANGED <<processEnv, notCfgVars>>

\* The load at i resumes after `await Promise.all`, every secret having
\* settled (lines 58-89): the Config is built, assigned to configCache,
\* whatever it holds by then, and returned (<<>> is undefined).
LoadResumes(i) ==
  /\ i \in 1..Len(load)
  /\ \A x \in ConfigSecrets : load[i].entries[x].status # "pending"
  /\ LET config == [x \in ConfigSecrets |-> load[i].entries[x].value]
     IN /\ configCache' = <<config>>
        /\ returned' = Return(config, load[i].by, FALSE)
  /\ load' = RemoveAt(load, i)
  /\ UNCHANGED <<lookups, secVars, notCfgVars>>

\* accessSecretVersion answers the lookup of one secret of the load at i: a
\* value is cached and kept; after a rejection getSecretWithFallback gives
\* undefined and the next call of the chain, if any, is made.
ConfigRemoteAnswer(i, secret, ok) ==
  /\ i \in 1..Len(load)
  /\ load[i].entries[secret].status = "pending"
  /\ LET e == load[i].entries[secret]
         name == LookupOf(secret, e)
         cache == IF ok THEN CacheSet(secretsCache, CacheKey(DefaultProject, name),
                                     StoredValue(name), now)
                  ELSE secretsCache
         next == IF ok THEN Entry(e.attempt, "value", StoredValue(name))
                 ELSE IF e.attempt < Len(FallbackChain(secret))
                 THEN EntryAtCall(secret, e.attempt + 1, cache)
                 ELSE Entry(e.attempt, "undefined", <<>>)
     IN LoadStep(RemoveAt(load, i), [load[i].entries EXCEPT ![secret] = next],
                 cache, load[i].by)
  /\ UNCHANGED <<processEnv, notCfgVars>>

\* clearConfigCache (lines 125-128)
ClearConfigCache ==
  /\ configCache' = <<>>
  /\ UNCHANGED <<load, lookups, returned, secVars, notCfgVars>>

NextConfig ==
  \/ \E by \in {"loadConfig", "getConfig"} : ConfigCall(by)
  \/ \E i \in 1..MaxLoads, secret \in ConfigSecrets, ok \in BOOLEAN :
       ConfigRemoteAnswer(i, secret, ok)
  \/ \E i \in 1..MaxLoads : LoadResumes(i)
  \/ ClearConfigCache

\* ------------------------------------------------------ useUnsplashSearch
\* The hook after construction (lines 5-7).  `inflight` holds the searches
\* awaiting their response, oldest first, each with its query and whether it
\* is the search issued most recently; `last` is the query issued most
\* recently and `lastAnswer` what that search's request was answered.
InitSearchIdle ==
  unsplash = [images |-> <<>>, loading |-> FALSE, error |-> Null,
              inflight |-> <<>>, last |-> "", lastAnswer |-> "none"]

\* search(query) up to its await (lines 10-26).
search(query) ==
  /\ Len(unsplash.inflight) < MaxSearches
  /\ unsplash' = [images |-> <<>>, loading |-> TRUE, error |-> Null,
                  inflight |->
                    Append([i \in 1..Len(unsplash.inflight) |->
                              [unsplash.inflight[i] EXCEPT !.latest = FALSE]],
                           [query |-> query, latest |-> TRUE]),
                  last |-> query, lastAnswer |-> "none"]
  /\ UNCHANGED <<genVars, secVars, fnVars, batch, cfgVars>>

\* The search at position i gets its response and, when ok, its body (lines
\* 28-38): the results are stored, or the failure's message; then loading is
\* cleared.
SearchResponse(i, answer) ==
  /\ i \in 1..Len(unsplash.inflight)
  /\ unsplash' =
       [unsplash EXCEPT
          !.inflight = RemoveAt(@, i),
          !.lastAnswer = IF unsplash.inflight[i].latest THEN answer ELSE @,
          !.images = IF answer = "ok"
                     THEN <<"image-of-" \o unsplash.inflight[i].query>> ELSE @,
          !.error = IF answer = "ok" THEN @
                    ELSE IF answer = "http" THEN "Failed to search images"
                    ELSE NetworkErrorMessage,
          !.loading = FALSE]
  /\ UNCHANGED <<genVars, secVars, fnVars, batch, cfgVars>>

NextSearch ==
  \/ \E query \in {"cat", "dog", "fox"} : search(query)
  \/ \E i \in 1..MaxSearches, answer \in {"ok", "http", "network"} : SearchResponse(i, answer)

\* ------------------------------------------------------- pure functions
\* NODE_ENV and VERCEL_ENV as a deployment may set them.
DetectableEnvs ==
  [NODE_ENV : {Unset, "development", "production", "test", "staging"},
   VERCEL_ENV : {Unset, "production", "preview", "development"},
   locals : {{}}]

FormatSecretNameCalls ==
  [fn : {"formatSecretName"}, penv : DetectableEnvs,
   secretName : {K, K \o PROD, K \o STG, K \o DEV, PROD,
                 K \o <<"_", "p", "r", "o", "d">>, K \o PROD \o <<"X">>},
   environment : {<<>>, <<"production">>, <<"staging">>, <<"development">>}]

GenerateSlugCalls ==
  [fn : {"generateSlug"},
   title : UNION {[1..k -> {"a", "B", "Î", " ", "\r", "-", "!"}] : k \in 0..MaxTitleLen}]

AddImagePlaceholdersCalls ==
  [fn : {"addImagePlaceholders"},
   blocks : {[j \in 1..n |-> ContentBlock(j)] : n \in 0..MaxBlocks},
   count : 0..MaxCount]

InitFnIdle ==
  /\ fnCall = [fn |-> "none"]
  /\ fnResult = <<>>

\* A markdown text is its lines joined by "\n"; the call keeps the lines it
\* was written from.
FormatBlockContentCalls ==
  LET Lines == {<<>>, <<" ">>, <<" ", "\t">>, <<"a">>, <<"#", " ", "a">>,
                <<"#", "#", " ", "a">>, <<"#", "#", "#", " ", "a">>,
                <<">", " ", "a">>, <<"#", "a">>, <<" ", "#", " ", "a">>,
                <<"#", "#", "#", "#", " ", "a">>, <<"#", " ">>, <<"\r">>,
                <<"a", "\r">>}
      RECURSIVE Join(_)
      Join(lines) ==
        IF Len(lines) = 1 THEN lines[1]
        ELSE lines[1] \o <<"\n">> \o Join(Tail(lines))
  IN {[fn |-> "formatBlockContent", lines |-> lines, markdown |-> Join(lines)] :
        lines \in UNION {[1..n -> Lines] : n \in 1..MaxLines}}

InitFn ==
  /\ \/ fnCall \in FormatSecretNameCalls
     \/ fnCall \in GenerateSlugCalls
     \/ fnCall \in AddImagePlaceholdersCalls
     \/ fnCall \in FormatBlockContentCalls
     \/ fnCall \in
          [fn : {"parseInlineFormatting"},
           text : UNION {[1..k -> {"*", "a", " ", "\r"}] : k \in 0..MaxTextLen}
                  \cup {<<"*", "*", "b", "o", "l", "d", "*", "*", " ", "a", "n", "d", " ",
                          "*", "i", "t", "a", "l", "i", "c", "*">>}]
  /\ fnResult = <<>>

CallFormatSecretName ==
  /\ fnCall.fn = "formatSecretName"
  /\ fnResult = <<>>
  /\ fnResult' = <<formatSecretName(fnCall.penv, fnCall.secretName, fnCall.environment)>>
  /\ UNCHANGED <<fnCall, notFnVars>>

CallGenerateSlug ==
  /\ fnCall.fn = "generateSlug"
  /\ fnResult = <<>>
  /\ fnResult' = <<generateSlug(fnCall.title)>>
  /\ UNCHANGED <<fnCall, notFnVars>>

CallAddImagePlaceholders ==
  /\ fnCall.fn = "addImagePlaceholders"
  /\ fnResult = <<>>
  /\ fnResult' = <<addImagePlaceholders(fnCall.blocks, fnCall.count)>>
  /\ UNCHANGED <<fnCall, notFnVars>>

CallFormatBlockContent ==
  /\ fnCall.fn = "formatBlockContent"
  /\ fnResult = <<>>
  /\ fnResult' = <<formatBlockContent(fnCall.markdown)>>
  /\ UNCHANGED <<fnCall, notFnVars>>

CallParseInlineFormatting ==
  /\ fnCall.fn = "parseInlineFormatting"
  /\ fnResult = <<>>
  /\ fnResult' = <<parseInlineFormatting(fnCall.text)>>
  /\ UNCHANGED <<fnCall, notFnVars>>

NextFn ==
  \/ CallFormatSecretName
  \/ CallGenerateSlug
  \/ CallAddImagePlaceholders
  \/ CallFormatBlockContent
  \/ CallParseInlineFormatting

\* ---------------------------------------------------------- specifications
Init == InitGen /\ InitSecretsIdle /\ InitFnIdle /\ InitBatchIdle /\ InitCfgIdle /\ InitSearchIdle
Spec == Init /\ [][Next]_vars

SecretInit == InitGen /\ InitSecrets /\ InitFnIdle /\ InitBatchIdle /\ InitCfgIdle /\ InitSearchIdle
SecretSpec == SecretInit /\ [][NextSecrets]_vars

\* The document action with its dialog: a dialog dismissed and opened again is
\* a new GenerateModal, and the runs of the earlier one go on.
DialogSpec == Init /\ [][NextDialog]_vars

\* Every network call a run awaits eventually returns or fails.
LiveSpec == Init /\ [][NextDialog]_vars /\ \A r \in 1..MaxCalls : WF_vars(DialogStep(r))

BatchSpec == SecretInit /\ [][NextBatch]_vars

ConfigInit ==
  /\ InitGen /\ InitFnIdle /\ InitBatchIdle /\ InitCfgIdle /\ InitSearchIdle
  /\ processEnv \in [NODE_ENV : {Unset, "production"},
                      VERCEL_ENV : {Unset, "preview"},
                      locals :
                        {{<<"SUPABASE_SERVICE_KEY">>, <<"NEXT_PUBLIC_SUPABASE_ANON_KEY">>,
                          <<"UNSPLASH_ACCESS_KEY">>},
                         {<<"SUPABASE_SERVICE_KEY">>, <<"NEXT_PUBLIC_SUPABASE_ANON_KEY">>,
                          <<"UNSPLASH_ACCESS_KEY">>, SANITY_API_TOKEN},
                         {<<"SUPABASE_SERVICE_KEY">>, <<"NEXT_PUBLIC_SUPABASE_ANON_KEY">>}}]
  /\ secretsCache = EmptyCache
  /\ now = 0
  /\ ticks = 0
  /\ pending = <<>>
  /\ out = NoOutcome
ConfigSpec == ConfigInit /\ [][NextConfig]_vars

SearchSpec == Init /\ [][NextSearch]_vars

PureInit == InitGen /\ InitSecretsIdle /\ InitFn /\ InitBatchIdle /\ InitCfgIdle /\ InitSearchIdle
PureSpec == PureInit /\ [][NextFn]_vars

\* ================================================================== claims
Last(q) == q[Len(q)]
Runs == 1..Len(runs)
Ended(run) == run.pc \in {"returned", "thrown"}
GenerateRequests(run) == SelectSeq(run.net, LAMBDA q : q.kind = "generate")
FailedIndexes(run) == {i \in 1..Len(run.genAnswers) : run.genAnswers[i].kind # "ok"}
SucceededLanguages(run) ==
  {run.formData.languages[i] : i \in (1..Len(run.genAnswers)) \ FailedIndexes(run)}

\* The document patches issued for the payload of call r of generate.
PatchesOfCall(r) == {i \in 1..Len(patch) : patch[i].call = r}

\* C1: a call of generate with an empty topic or an empty language list ends
\* at once, also when another call is in progress: the hook is in the error
\* state with the validation message, the exception is rethrown, no payload
\* is returned, the call has issued no network request at all, and no
\* document patch follows it.
C1_InvalidFormFailsFast ==
  [][\A r \in 1..Len(runs') :
       Invalid(runs'[r].formData) =>
         /\ runs'[r].pc = "thrown"
         /\ runs'[r].trace = <<"validating", "error">>
         /\ runs'[r].thrown = <<ErrorOf("validation")>>
         /\ runs'[r].payload = <<>>
         /\ runs'[r].net = <<>>
         /\ \A i \in 1..Len(patch') : patch'[i].call # r
         /\ r > Len(runs) =>
              /\ state' = "error"
              /\ progress'.state = "error"
              /\ error' = ValidationMessage]_vars

\* A form without a topic that asks for a featured image was rejected while
\* an earlier call was waiting for its answer.
C1_Witness ==
  /\ Len(runs) = 2
  /\ runs[1].pc = "gen"
  /\ runs[2].pc = "thrown"
  /\ runs[2].formData.topic = ""
  /\ runs[2].formData.featuredImage
  /\ state = "error"

\* C2: once a generation request of a run has failed, the run does not end in
\* error; when it ends it has announced complete, its payload's title, excerpt
\* and content hold only languages whose request succeeded, and the hook is
\* then complete with a progress that lists the full requested language list
\* as completed.
C2_PartialFailureCompletes ==
  [][\A r \in 1..Len(runs') :
       FailedIndexes(runs'[r]) # {} =>
         /\ runs'[r].pc # "thrown"
         /\ runs'[r].thrown = <<>>
         /\ "error" \notin Range(runs'[r].trace)
         /\ Ended(runs'[r]) =>
              /\ Last(runs'[r].trace) = "complete"
              /\ runs'[r].payload # <<>>
              /\ DOMAIN runs'[r].payload[1].title \subseteq SucceededLanguages(runs'[r])
              /\ DOMAIN runs'[r].payload[1].excerpt \subseteq SucceededLanguages(runs'[r])
              /\ DOMAIN runs'[r].payload[1].content \subseteq SucceededLanguages(runs'[r])
              /\ (r \in Runs /\ ~Ended(runs[r]) /\ runs[r].mounted) =>
                   /\ state' = "complete"
                   /\ progress'.state = "complete"
                   /\ progress'.completedLanguages = runs'[r].formData.languages]_vars

C2_Witness ==
  \E r \in Runs :
    /\ runs[r].pc = "returned"
    /\ Len(runs[r].formData.languages) = 2
    /\ runs[r].genAnswers[1].kind = "network"
    /\ runs[r].genAnswers[2].kind = "ok"
    /\ DOMAIN runs[r].payload[1].title = {runs[r].formData.languages[2]}
    /\ state = "complete"
    /\ progress.completedLanguages = runs[r].formData.languages

\* C3: the values a run passes to setState follow validating,
\* searching-images (exactly when a featured image is asked for), generating,
\* formatting, saving, complete, without a gap or a repetition; error may cut
\* the sequence short and is then its last value, and nothing follows
\* complete or error.
PhaseOrder(withImage) ==
  IF withImage
  THEN <<"validating", "searching-images", "generating", "formatting", "saving", "complete">>
  ELSE <<"validating", "generating", "formatting", "saving", "complete">>

C3_PhasesOnlyForward ==
  \A r \in Runs :
    LET trace == runs[r].trace
        failed == Last(trace) = "error"
        core == IF failed THEN SubSeq(trace, 1, Len(trace) - 1) ELSE trace
        order == PhaseOrder(runs[r].formData.featuredImage)
    IN /\ Len(core) <= Len(order)
       /\ core = SubSeq(order, 1, Len(core))
       /\ failed <=> runs[r].pc = "thrown"
       /\ Last(trace) = "complete" <=> runs[r].pc = "returned"

C3_Witness ==
  \E r \in Runs :
    /\ runs[r].pc = "returned"
    /\ runs[r].trace = PhaseOrder(TRUE)
    /\ state = "complete"

\* C4: the generation requests a run has issued so far are one per language,
\* for the first languages of the list in the list's order, each carrying
\* that one language; at most one is outstanding, every earlier one has been
\* answered (also by a failure), and a run that got to generating and has
\* ended has issued exactly one request per language.
C4_OneRequestPerLanguageInOrder ==
  \A r \in Runs :
    LET reqs == GenerateRequests(runs[r])
        languages == runs[r].formData.languages
    IN /\ Len(reqs) <= Len(languages)
       /\ \A i \in 1..Len(reqs) :
            /\ reqs[i].languages = <<languages[i]>>
            /\ reqs[i].phase = "generating"
       /\ Len(reqs) = Len(runs[r].genAnswers) + (IF runs[r].pc = "gen" THEN 1 ELSE 0)
       /\ (Ended(runs[r]) /\ "generating" \in Range(runs[r].trace))
            => Len(reqs) = Len(languages)

C4_Witness ==
  \E r \in Runs :
    /\ runs[r].pc = "gen"
    /\ Len(GenerateRequests(runs[r])) = 2
    /\ Len(runs[r].genAnswers) = 1
    /\ runs[r].genAnswers[1].kind = "http"

\* C5 as claimed: the payload's tags are the keywords merged with the tags of
\* the first language whose request succeeded, whatever its position.
C5_TagsOfFirstSuccess ==
  \A r \in Runs :
    (runs[r].pc = "returned") =>
       LET genAnswers == runs[r].genAnswers
           formData == runs[r].formData
           ok == (1..Len(genAnswers)) \ FailedIndexes(runs[r])
           first == CHOOSE i \in ok : \A j \in ok : i <= j
       IN ok # {} =>
            IF genAnswers[first].tags
            THEN runs[r].payload[1].tags =
                   Dedup(formData.keywords \o TagsOf(formData.languages[first]))
            ELSE runs[r].payload[1].tags \in {formData.keywords, Dedup(formData.keywords)}

\* C5 amended: the payload's tags are the keywords merged with the tags
\* returned by the first language of the requested list, duplicates removed,
\* when that language's request succeeded and returned tags; otherwise they
\* are the caller's keywords as given.  Tags of later languages are ignored.
C5_TagsOfFirstListed ==
  \A r \in Runs :
    (runs[r].pc = "returned") =>
       runs[r].payload[1].tags =
         IF runs[r].genAnswers[1].kind = "ok" /\ runs[r].genAnswers[1].tags
         THEN Dedup(runs[r].formData.keywords \o TagsOf(runs[r].formData.languages[1]))
         ELSE runs[r].formData.keywords

C5_Witness ==
  \E r \in Runs :
    /\ runs[r].pc = "returned"
    /\ Len(runs[r].formData.languages) = 2
    /\ runs[r].genAnswers[1].kind = "http"
    /\ runs[r].genAnswers[2].kind = "ok" /\ runs[r].genAnswers[2].tags
    /\ runs[r].formData.keywords = <<"dog">>
    /\ runs[r].payload[1].tags = <<"dog">>

\* C6: a featured-image search that fails (a non-ok response or a rejected
\* request) or finds nothing does not end the run: the run does not end in
\* error, and ends complete with no featured image in the payload.
C6_SearchFailureNonFatal ==
  \A r \in Runs :
    (runs[r].searchAnswer # <<>> /\ runs[r].searchAnswer[1] \in {"http", "network", "empty"}) =>
       /\ runs[r].pc # "thrown"
       /\ Ended(runs[r]) =>
            (runs[r].payload # <<>> /\ runs[r].payload[1].featuredImage = <<>>)

\* C7: when the upload of the featured image fails, at the fetch of the
\* bytes or at the store of the asset, the run still ends complete, and its
\* payload has no featured image while every other field is what the payload
\* with the uploaded image would hold.
UploadFailed(run) == run.uploadAnswers # <<>> /\ Last(run.uploadAnswers) # "ok"

C7_UploadFailureNonFatal ==
  \A r \in Runs :
    UploadFailed(runs[r]) =>
       /\ runs[r].pc = "returned"
       /\ Last(runs[r].trace) = "complete"
       /\ runs[r].thrown = <<>>
       /\ runs[r].payload # <<>>
       /\ runs[r].payload[1].featuredImage = <<>>
       /\ LET uploaded == DocumentData(runs[r], runs[r].formData,
                                       <<"image-asset-" \o runs[r].featuredImage[1].id>>)
          IN /\ uploaded.featuredImage # <<>>
             /\ runs[r].payload[1] = [uploaded EXCEPT !.featuredImage = <<>>]
       /\ DOMAIN runs[r].payload[1].title =
            SucceededLanguages(runs[r]) \cap
              {runs[r].formData.languages[i] :
                 i \in {j \in 1..Len(runs[r].genAnswers) : runs[r].genAnswers[j].title}}
       /\ runs[r].payload[1].categories =
            (IF runs[r].formData.category # "" THEN <<runs[r].formData.category>> ELSE <<>>)

C7_Witness ==
  \E r \in Runs :
    /\ runs[r].pc = "returned"
    /\ runs[r].uploadAnswers = <<"ok", "network">>
    /\ DOMAIN runs[r].payload[1].title # {}
    /\ runs[r].payload[1].categories = <<"cat-1">>
    /\ runs[r].payload[1].featuredImage = <<>>

\* C8: a request that times out (is rejected with an AbortError), at whatever
\* point of the run, ends the run in error with the timeout message, and no
\* payload is returned.
TimedOut(run) ==
  \/ run.searchAnswer = <<"abort">>
  \/ \E i \in 1..Len(run.genAnswers) : run.genAnswers[i].kind = "abort"
  \/ \E i \in 1..Len(run.uploadAnswers) : run.uploadAnswers[i] = "abort"

C8_TimeoutFatal ==
  \A r \in Runs :
    TimedOut(runs[r]) =>
       /\ runs[r].pc = "thrown"
       /\ ErrorMessageOf(runs[r].thrown[1]) = TimeoutMessage
       /\ runs[r].payload = <<>>

\* C9: generate issues no document patch: none of a run's network requests
\* is a commit.  The one patch of a call is issued by the success handler,
\* with the payload, when generate has announced complete and returned to
\* handleSubmit; a run that ends in error leads to no patch, and the document
\* holds only what committed patches have set.
C9_OnlySuccessHandlerPatches ==
  LET committed == {i \in 1..Len(patch) : patch[i].status = "committed"}
  IN /\ \A r \in Runs : \A i \in 1..Len(runs[r].net) :
           runs[r].net[i].kind \in {"search", "generate", "image-bytes", "asset-upload"}
     /\ \A i \in 1..Len(patch) :
           /\ patch[i].call \in Runs
           /\ runs[patch[i].call].pc = "returned"
           /\ runs[patch[i].call].caller = "modal"
           /\ Last(runs[patch[i].call].trace) = "complete"
           /\ patch[i].fields = PatchFields(runs[patch[i].call].payload[1])
     /\ \A r \in Runs :
           /\ Cardinality(PatchesOfCall(r)) <= 1
           /\ runs[r].pc = "returned" => Cardinality(PatchesOfCall(r)) = 1
           /\ runs[r].pc # "returned" => PatchesOfCall(r) = {}
     /\ doc = UNION {patch[i].fields : i \in committed}
     /\ onCompleteCalls = Cardinality(committed)

\* The dialog was dismissed and opened again while a run was in progress; that
\* run and the run started from the new dialog have both returned, each has
\* its patch, and both patches are committed.
C9_Witness ==
  /\ Len(runs) = 2
  /\ ~runs[1].mounted
  /\ runs[1].pc = "returned" /\ runs[2].pc = "returned"
  /\ Len(patch) = 2
  /\ patch[1].status = "committed" /\ patch[2].status = "committed"
  /\ patch[1].call = 2 /\ patch[2].call = 1
  /\ "title" \in doc

\* C17: a run that has started and waits for a network call eventually ends,
\* its last announced state being complete or error, whether or not the dialog
\* that started it is still open, provided every network call is answered.
Running(r) == r \in Runs /\ InFlight(runs[r])
Over(r) ==
  /\ r \in Runs
  /\ Ended(runs[r])
  /\ Last(runs[r].trace) \in {"complete", "error"}
C17_RunEndsDespiteDismissal == \A r \in 1..MaxCalls : Running(r) ~> Over(r)

\* The dialog was dismissed and opened again while run 1 was in progress, a
\* second run was started from the new dialog, and run 1 has returned its
\* payload before the second run.
C17_Witness ==
  /\ Len(runs) = 2
  /\ runs[1].caller = "modal"
  /\ ~runs[1].mounted
  /\ runs[1].pc = "returned"
  /\ Last(runs[1].trace) = "complete"
  /\ InFlight(runs[2])
  /\ runs[2].genAnswers = <<>>

\* C18: every network call of the featured-image upload (the fetch of the
\* image bytes and the asset upload) is issued while the phase is 'saving',
\* and no network call is issued while the phase is 'formatting'.
C18_UploadWhileSaving ==
  \A r \in Runs : \A i \in 1..Len(runs[r].net) :
    /\ runs[r].net[i].kind \in {"image-bytes", "asset-upload"} => runs[r].net[i].phase = "saving"
    /\ runs[r].net[i].phase # "formatting"

\* C19: when the generation request of the first language of the list failed,
\* the payload's tags are the caller's keywords exactly, whatever the later
\* languages returned.
C19_FirstLanguageFailedKeepsKeywords ==
  \A r \in Runs :
    (runs[r].payload # <<>> /\ runs[r].genAnswers[1].kind # "ok") =>
       runs[r].payload[1].tags = runs[r].formData.keywords

\* The first language's request was rejected, the second language answered
\* with content and tags, and the payload carries the keywords only.
C19_Witness ==
  \E r \in Runs :
    /\ runs[r].payload # <<>>
    /\ Len(runs[r].formData.languages) = 2
    /\ runs[r].genAnswers[1].kind = "network"
    /\ runs[r].genAnswers[2] = OkAnswer(TRUE, TRUE, "string", TRUE, TRUE)
    /\ runs[r].formData.languages[2] \in DOMAIN runs[r].payload[1].title
    /\ runs[r].formData.keywords = <<"dog">>
    /\ runs[r].payload[1].tags = <<"dog">>

\* The languages whose request answered with a title.
TitledLanguages(run) ==
  {run.formData.languages[i] : i \in {j \in 1..Len(run.genAnswers) :
     run.genAnswers[j].kind = "ok" /\ run.genAnswers[j].title}}

\* C20: the payload's slug is the slug of the Romanian title when a Romanian
\* title was generated, otherwise of the English title when one was, whatever
\* the order of the languages.
C20_SlugPrefersRomanian ==
  \A r \in Runs :
    runs[r].payload # <<>> =>
       /\ "ro" \in TitledLanguages(runs[r])
            => runs[r].payload[1].slug = generateSlug(TitleOf("ro"))
       /\ ("ro" \notin TitledLanguages(runs[r]) /\ "en" \in TitledLanguages(runs[r]))
            => runs[r].payload[1].slug = generateSlug(TitleOf("en"))

\* English was requested and answered before Romanian, both with a title, and
\* the slug is the Romanian one.
C20_Witness ==
  \E r \in Runs :
    /\ runs[r].payload # <<>>
    /\ runs[r].formData.languages = <<"en", "ro">>
    /\ TitledLanguages(runs[r]) = {"en", "ro"}
    /\ runs[r].payload[1].slug = generateSlug(TitleOf("ro"))
    /\ runs[r].payload[1].slug # generateSlug(TitleOf("en"))

\* C23: whenever a run waits for a network call, and when it has ended, the
\* hook's state and progress.state carry the same phase tag.
C23_StateAndProgressAgree ==
  runs # <<>> => state = progress.state

\* A run with an image waits for the asset upload with both tags at
\* 'formatting', after having gone through searching-images and generating.
C23_Witness ==
  /\ Len(runs) = 1
  /\ runs[1].pc = "upload-store"
  /\ state = "formatting"
  /\ progress.state = "formatting"
  /\ runs[1].trace = <<"validating", "searching-images", "generating", "formatting">>

\* C24: whenever the phase is formatting or saving, progress.currentLanguage
\* and progress.message are unset, and the progress indicator shows the
\* phase's own text.
C24_NoLanguageFieldsAfterGenerating ==
  state \in {"formatting", "saving"} =>
    /\ progress.currentLanguage = Undefined
    /\ progress.message = Undefined
    /\ getStateMessage(state, progress) =
         (IF state = "formatting" THEN "Formatting content..." ELSE "Saving document...")

\* C29: the timer started by handleSubmit closes the modal only when the
\* patch carrying the payload has been committed; while the commit is pending
\* or after it failed the modal is not closed by it.
C29_CloseAfterCommit ==
  [][closeTimer' < closeTimer =>
       (patch # <<>> /\ \A i \in 1..Len(patch) : patch[i].status = "committed")]_vars

\* C30: a run that completes with at least one generated title returns a
\* payload whose slug is not empty.
C30_SlugNotEmpty ==
  \A r \in Runs :
    (runs[r].payload # <<>> /\ DOMAIN runs[r].payload[1].title # {}) =>
      runs[r].payload[1].slug # <<>>

\* ---------------------------------------------------------------------------
\* Secrets cache
\* ---------------------------------------------------------------------------

\* A getSecret call was made in this step and a remote call was issued for it.
RemoteIssued == Len(pending') = Len(pending) + 1
\* A getSecret call was made in this step and returned without a remote call.
ReturnedAtOnce == out'.seq # out.seq /\ pending' = pending
\* A remote call was answered in this step.
RemoteAnswered == out'.seq # out.seq /\ Len(pending') = Len(pending) - 1

CallOfStep == IF RemoteIssued THEN pending'[Len(pending')] ELSE out'

\* An entry for the key was stored less than 5 minutes before the present.
StoredWithinFiveMinutes(key) ==
  key \in DOMAIN secretsCache /\ now - secretsCache[key].timestamp < 5 * 60 * 1000

C10_Step ==
  /\ ( /\ RemoteIssued \/ ReturnedAtOnce
       /\ CallOfStep.useCache
       /\ ~LocalOverride(processEnv, CallOfStep.secretName) )
     => /\ RemoteIssued <=> ~StoredWithinFiveMinutes(CallOfStep.key)
        /\ ReturnedAtOnce =>
             /\ out'.status = "cache"
             /\ out'.value = secretsCache[CallOfStep.key].value
        /\ secretsCache' = secretsCache
  /\ (RemoteAnswered /\ out'.useCache /\ out'.status = "resolved")
     => /\ out'.key \in DOMAIN secretsCache'
        /\ secretsCache'[out'.key] = [value |-> out'.value, timestamp |-> now]

\* C10: with caching enabled and no local override in play, a getSecret call
\* issues a remote call if and only if no cache entry for its (project id,
\* qualified name) key was stored less than 5 minutes earlier; otherwise it
\* returns the cached value and leaves the cache alone; and when the remote
\* call of a caching getSecret resolves, the entry of its key is replaced by the
\* fetched value with the time of the answer as its timestamp.
C10_CacheWindow == [][C10_Step]_vars

\* The entry of a key was stored at time 0, the last settled call for that key
\* was served from the cache, and a later call, made exactly 5 minutes after the
\* entry was stored, is waiting for the secret store.
C10_Witness ==
  /\ Len(pending) = 1
  /\ pending[1].useCache
  /\ ~LocalOverride(processEnv, pending[1].secretName)
  /\ pending[1].key \in DOMAIN secretsCache
  /\ secretsCache[pending[1].key].timestamp = 0
  /\ now = CACHE_TIMEOUT
  /\ out.status = "cache"
  /\ out.key = pending[1].key

\* ---------------------------------------------------------------------------
\* getSecrets
\* ---------------------------------------------------------------------------

AllSettled == \A i \in 1..Len(batch.slots) : batch.slots[i].status # "pending"
ResolvedAt == {i \in 1..Len(batch.slots) : batch.slots[i].status = "resolved"}

\* C13: getSecrets never rejects; once every getSecret of the batch has
\* settled it has resolved with a map whose keys are exactly the requested
\* names whose getSecret resolved, each mapped to a value its own getSecret
\* resolved with, whatever happened to the other names.
C13_BatchOmitsFailures ==
  /\ batch.outcome # "rejected"
  /\ (batch.outcome # "none" /\ AllSettled) =>
       /\ batch.outcome = "resolved"
       /\ DOMAIN batch.results = {batch.names[i] : i \in ResolvedAt}
       /\ \A n \in DOMAIN batch.results :
            batch.results[n] \in {batch.slots[i].value : i \in {j \in ResolvedAt : batch.names[j] = n}}

\* Two different names were requested, the first one's getSecret was rejected,
\* the second one's resolved, and the map holds the second name only.
C13_Witness ==
  /\ batch.outcome = "resolved"
  /\ Len(batch.names) = 2
  /\ batch.names[1] # batch.names[2]
  /\ batch.slots[1].status = "rejected"
  /\ batch.slots[2] = Slot("resolved", "v1")
  /\ DOMAIN batch.results = {batch.names[2]}
  /\ batch.results[batch.names[2]] = "v1"

\* ---------------------------------------------------------------------------
\* loadConfig
\* ---------------------------------------------------------------------------

\* C14: when the environment is production, every remote secret lookup made
\* while loading the configuration uses a name that carries the _PROD suffix,
\* and the configuration holds no value stored under a _STG or _DEV name.
C14_ProductionLooksUpProdOnly ==
  getEnvironment(processEnv) = "production" =>
    /\ \A name \in lookups : EndsWith(name, PROD)
    /\ configCache # <<>> =>
         \A x \in ConfigSecrets :
           \A name \in lookups :
             (EndsWith(name, STG) \/ EndsWith(name, DEV))
               => configCache[1][x] # StoredValue(name)

\* A loadConfig or getConfig call is made and returns in the same step.
CallReturns == returned'.seq # returned.seq /\ load' = load

\* A call made while a configuration is cached returns that configuration
\* and starts no secret lookup; a call that builds a configuration caches it,
\* whatever secrets are missing from it.
CachedConfigServed ==
  /\ returned'.seq # returned.seq => configCache' = <<returned'.config>>
  /\ configCache # <<>> =>
       /\ Len(load') <= Len(load)
       /\ CallReturns =>
            /\ returned'.cached
            /\ returned'.config = configCache[1]
            /\ UNCHANGED <<configCache, lookups, secretsCache>>

\* C27 as claimed: once a configuration is cached, every loadConfig or
\* getConfig call returns it without any secret lookup, and the cached
\* configuration stays that same configuration until clearConfigCache.
C27_SameConfigUntilCleared ==
  [][/\ CachedConfigServed
     /\ (configCache # <<>> /\ configCache' # <<>>) => configCache' = configCache]_vars

\* C27 amended: once a configuration is cached, every loadConfig or getConfig
\* call made before clearConfigCache returns the cached configuration without
\* any secret lookup; the cached configuration is replaced only by
\* clearConfigCache or by a load that was already in progress and completes.
C27_CachedUntilClearedOrOverlap ==
  [][/\ CachedConfigServed
     /\ (configCache # <<>> /\ configCache' \notin {<<>>, configCache})
          => (Len(load') < Len(load) /\ ~returned'.cached
              /\ configCache' = <<returned'.config>>)]_vars

\* A configuration without the Sanity token (both lookups were rejected) is
\* cached, and a later getConfig call was served from the cache.
C27_Witness ==
  /\ configCache # <<>>
  /\ configCache[1].sanityApiToken = <<>>
  /\ returned.cached
  /\ returned.by = "getConfig"
  /\ returned.config = configCache[1]
  /\ load = <<>>

\* ---------------------------------------------------------------------------
\* Overlapping and overridden lookups
\* ---------------------------------------------------------------------------

\* The cache key of the getSecret call at position i of the batch.
BatchKey(i) ==
  CacheKey(DefaultProject, formatSecretName(processEnv, batch.names[i], <<>>))

\* C25: with caching enabled, no two accessSecretVersion calls for the same
\* cache key are in progress at the same time (overlapping getSecret calls for
\* one key share a single remote call).
C25_OneRemoteCallPerKey ==
  batch.useCache =>
    \A i, j \in 1..Len(batch.slots) :
      (i # j /\ batch.slots[i].status = "pending" /\ batch.slots[j].status = "pending")
        => BatchKey(i) # BatchKey(j)

\* C26: a getSecret call with options.environment = 'production' that returns
\* without a remote call returns the cached value of the _PROD-qualified
\* secret, never a value of the process environment.
C26_ProductionOptionIgnoresLocal ==
  [][\A req \in SecretRequests :
       (req.environment = <<"production">> /\ GetSecretCall(req) /\ out'.seq # out.seq)
         => (out'.status = "cache" /\ EndsWith(out'.key, PROD))]_vars

\* ---------------------------------------------------------------------------
\* Image-search hook
\* ---------------------------------------------------------------------------

\* C28: loading is true whenever a search request is in flight, and once
\* every search has completed images and error are those of the search issued
\* most recently: its results and no error when it succeeded, no images and
\* its failure's message when it failed.
C28_LatestSearchWins ==
  /\ unsplash.inflight # <<>> => unsplash.loading
  /\ (unsplash.inflight = <<>> /\ unsplash.last # "") =>
       /\ ~unsplash.loading
       /\ IF unsplash.lastAnswer = "ok"
          THEN /\ unsplash.images = <<"image-of-" \o unsplash.last>>
               /\ unsplash.error = Null
          ELSE /\ unsplash.images = <<>>
               /\ unsplash.error # Null

\* ---------------------------------------------------------------------------
\* Pure functions
\* ---------------------------------------------------------------------------

Returned(fn) == fnCall.fn = fn /\ fnResult # <<>>

HasEnvSuffix(name) ==
  EndsWith(name, PROD) \/ EndsWith(name, STG) \/ EndsWith(name, DEV)

EffectiveEnvironment(call) ==
  IF call.environment # <<>> THEN call.environment[1] ELSE getEnvironment(call.penv)

\* C11: a secret name that already ends in _PROD, _STG or _DEV is returned
\* unchanged by formatSecretName in every environment, detected or passed as
\* an option; the result is the name itself or the unqualified name with one
\* suffix, and formatting a qualified result again, in any environment, returns
\* it unchanged.
C11_QualifiedNameUnchanged ==
  Returned("formatSecretName") =>
    LET name == fnCall.secretName
        r == fnResult[1]
    IN /\ HasEnvSuffix(name) => r = name
       /\ r # name =>
            /\ ~HasEnvSuffix(name)
            /\ \E suffix \in {PROD, STG, DEV} : r = name \o suffix
       /\ HasEnvSuffix(r) =>
            \A penv \in DetectableEnvs,
               env \in {<<>>, <<"production">>, <<"staging">>, <<"development">>} :
              formatSecretName(penv, r, env) = r

\* K_PROD was formatted for staging (passed as an option) in a process that
\* detects production, and came back as K_PROD.
C11_Witness ==
  /\ Returned("formatSecretName")
  /\ fnCall.secretName = K \o PROD
  /\ fnCall.environment = <<"staging">>
  /\ getEnvironment(fnCall.penv) = "production"
  /\ fnResult[1] = K \o PROD

\* C12: for a secret name without an environment suffix, formatSecretName
\* returns the name with the suffix of the effective environment appended:
\* _PROD for production, _STG for staging, _DEV for development.
C12_SuffixOfEffectiveEnvironment ==
  (Returned("formatSecretName") /\ ~HasEnvSuffix(fnCall.secretName)) =>
    fnResult[1] = fnCall.secretName \o SuffixOf(EffectiveEnvironment(fnCall))

\* C15: the slug generateSlug returns has no leading hyphen, no trailing
\* hyphen and no two consecutive hyphens.
C15_SlugHyphens ==
  Returned("generateSlug") =>
    LET slug == fnResult[1]
    IN /\ slug # <<>> => (slug[1] # "-" /\ slug[Len(slug)] # "-")
       /\ \A i \in 1..(Len(slug) - 1) : ~(slug[i] = "-" /\ slug[i + 1] = "-")

IsPlaceholder(b, i) == b._type = "image" /\ b.alt = <<"Placeholder", i>>
IsOriginal(b, index) == b._type = "block" /\ b._key = index + 1

\* What C16 says of every call, but for where each placeholder sits.
PlaceholdersCommon(call, result) ==
  LET n == Len(call.blocks)
      c == call.count
      ret == result.returned
  IN /\ Len(ret) = n + c
     /\ SelectSeq(ret, LAMBDA b : b._type = "block") = call.blocks
     /\ LET images == SelectSeq(ret, LAMBDA b : b._type = "image")
        IN /\ Len(images) = c
           /\ \A i \in 1..c : IsPlaceholder(images[i], i)
     /\ result.blocks = call.blocks

\* Placeholder i sits immediately before the original block at index
\* floor(n / (c + 1)) * i.
PlaceholderBeforeBlock(call, result, i) ==
  LET n == Len(call.blocks)
      ret == result.returned
  IN \E p \in 1..(Len(ret) - 1) :
       /\ IsPlaceholder(ret[p], i)
       /\ IsOriginal(ret[p + 1], (n \div (call.count + 1)) * i)

\* C16 as stated: for n >= 3 blocks and a count c, addImagePlaceholders
\* returns n + c blocks, the original blocks in their order, the placeholders
\* in ascending number order, placeholder i immediately before the original
\* block at index floor(n/(c+1))*i, and the input unmodified.
C16_PlaceholderPositions ==
  (Returned("addImagePlaceholders") /\ Len(fnCall.blocks) >= 3) =>
    /\ PlaceholdersCommon(fnCall, fnResult[1])
    /\ \A i \in 1..fnCall.count : PlaceholderBeforeBlock(fnCall, fnResult[1], i)

\* C16, amended: as above when c < n; when c >= n the spacing is 0 and the
\* result is the c placeholders, in ascending number order, followed by the
\* original blocks.
C16_PlaceholderPositionsWhenSpaced ==
  (Returned("addImagePlaceholders") /\ Len(fnCall.blocks) >= 3) =>
    /\ PlaceholdersCommon(fnCall, fnResult[1])
    /\ IF fnCall.count < Len(fnCall.blocks)
       THEN \A i \in 1..fnCall.count : PlaceholderBeforeBlock(fnCall, fnResult[1], i)
       ELSE /\ \A i \in 1..fnCall.count : IsPlaceholder(fnResult[1].returned[i], i)
            /\ SubSeq(fnResult[1].returned, fnCall.count + 1,
                      Len(fnResult[1].returned)) = fnCall.blocks

\* 6 blocks and a count of 2: the placeholders sit before the original blocks
\* at indexes 2 and 4.
C16_Witness ==
  /\ Returned("addImagePlaceholders")
  /\ Len(fnCall.blocks) = 6
  /\ fnCall.count = 2
  /\ IsPlaceholder(fnResult[1].returned[3], 1)
  /\ IsOriginal(fnResult[1].returned[4], 2)
  /\ IsPlaceholder(fnResult[1].returned[6], 2)
  /\ IsOriginal(fnResult[1].returned[7], 4)

\* The prefix that gives a line its style, and the style.
PrefixOf(line) ==
  CASE Len(line) >= 2 /\ SubSeq(line, 1, 2) = <<"#", " ">> -> <<"h1", 2>>
    [] Len(line) >= 3 /\ SubSeq(line, 1, 3) = <<"#", "#", " ">> -> <<"h2", 3>>
    [] Len(line) >= 4 /\ SubSeq(line, 1, 4) = <<"#", "#", "#", " ">> -> <<"h3", 4>>
    [] Len(line) >= 2 /\ SubSeq(line, 1, 2) = <<">", " ">> -> <<"blockquote", 2>>
    [] OTHER -> <<"normal", 0>>

NonBlankLines(lines) ==
  SelectSeq(lines, LAMBDA line : \E i \in 1..Len(line) : line[i] \notin {" ", "\t", "\r"})

\* C21: formatBlockContent emits exactly one block per non-blank line, in
\* line order, and none for a blank line; the style of a block depends only on
\* its own line (h1, h2, h3 for the "# ", "## ", "### " prefixes, blockquote
\* for "> ", normal otherwise), and the text of a heading or quote is the line
\* without its prefix.
C21_OneBlockPerNonBlankLine ==
  Returned("formatBlockContent") =>
    LET lines == NonBlankLines(fnCall.lines)
        blocks == fnResult[1]
    IN /\ Len(blocks) = Len(lines)
       /\ \A i \in 1..Len(lines) :
            LET style == PrefixOf(lines[i])[1]
                n == PrefixOf(lines[i])[2]
            IN /\ blocks[i].type = "block"
               /\ blocks[i].style = style
               /\ style # "normal" =>
                    /\ Len(blocks[i].children) = 1
                    /\ blocks[i].children[1].text = SubSeq(lines[i], n + 1, Len(lines[i]))
                    /\ blocks[i].children[1].marks = <<>>

\* A heading, a whitespace-only line and a paragraph were formatted into two
\* blocks, h1 then normal.
C21_Witness ==
  /\ Returned("formatBlockContent")
  /\ fnCall.lines = <<<<"#", " ", "a">>, <<" ", "\t">>, <<"a">>>>
  /\ Len(fnResult[1]) = 2
  /\ fnResult[1][1].style = "h1"
  /\ fnResult[1][2].style = "normal"

\* The text the runs stand for: a strong run is its text between "**", an em
\* run its text between "*", an unmarked run its text.
RECURSIVE TextOfRuns(_)
TextOfRuns(spans) ==
  IF spans = <<>> THEN <<>>
  ELSE LET r == spans[1]
           m == IF r.marks = <<"strong">> THEN <<"*", "*">>
                ELSE IF r.marks = <<"em">> THEN <<"*">> ELSE <<>>
       IN m \o r.text \o m \o TextOfRuns(Tail(spans))

\* C22: the runs of a paragraph line are its emphasis spans and the stretches
\* between them, left to right: a strong run for each **...** span, an em run
\* for each *...* span and one unmarked run for every maximal stretch of
\* unmatched text, so the runs taken together spell the line; a line without
\* emphasis gives one unmarked run holding the whole line, and
\* "**bold** and *italic*" gives exactly three runs.
C22_RunsAreSpansAndPlainText ==
  Returned("parseInlineFormatting") =>
    LET text == fnCall.text
        spans == fnResult[1]
    IN /\ \A i \in 1..Len(spans) : spans[i].marks \in {<<>>, <<"strong">>, <<"em">>}
       /\ TextOfRuns(spans) = text
       /\ \A i \in 1..(Len(spans) - 1) : ~(spans[i].marks = <<>> /\ spans[i + 1].marks = <<>>)
       /\ (\A i \in 1..Len(text) : text[i] # "*") => spans = <<Span(text, <<>>)>>
       /\ Len(text) = 21 =>
            spans = <<Span(<<"b", "o", "l", "d">>, <<"strong">>),
                     Span(<<" ", "a", "n", "d", " ">>, <<>>),
                     Span(<<"i", "t", "a", "l", "i", "c">>, <<"em">>)>>

====
